---- MODULE Spec2Model ----
(***************************************************************************)
(* Verification model of the financial-spreading engine (spreader.py,      *)
(* models.py, period_utils.py).                                            *)
(*                                                                         *)
(* Conventions.                                                            *)
(*  - An Optional[float] is a sequence of length 0 (None) or 1 (a value).  *)
(*  - Monetary amounts are whole numbers; a relative tolerance is a        *)
(*    whole percentage, so  diff > abs(x) * tolerance  is                  *)
(*    diff * 100 > abs(x) * tolerancePct.                                  *)
(*  - A confidence is a whole percentage (0.7 is 70).                      *)
(*  - raw_fields_used entries are modelled by their provenance marker.     *)
(*  - Labels are strings; a regular expression is a syntax tree matched    *)
(*    by Ends.  A local a function computes once and reads several times   *)
(*    is the parameter of a helper operator.                               *)
(*  - Three specifications share the variables: SpecRecon (validation and  *)
(*    computed totals on one statement), SpecSingle (spread_pdf) and       *)
(*    SpecMulti (spread_pdf_multi_period); each leaves the variables of    *)
(*    the others idle.                                                     *)
(***************************************************************************)
EXTENDS Integers, Sequences, FiniteSets, TLC

VARIABLES
    \* ---- validator / reconciler applied to one statement ----
    rc_pc,            \* "input" | "applied" | "validated"
    rc_data,          \* the statement object the passes work on
    rc_orig,          \* the statement as it was handed in
    rc_tol,           \* tolerance (percent)
    rc_corrections,   \* corrections list returned by apply_computed_totals
    rc_log,           \* warnings logged by apply_computed_totals
    rc_validation,    \* ValidationResult of validate_spread (or NoValidation)
    \* ---- spread_pdf: single-period extraction with the reasoning loop ----
    sp_pc,            \* position in spread_pdf
    sp_doc_type,      \* "income" | "balance"
    sp_max_retries,   \* max_retries argument
    sp_tol,           \* validation_tolerance argument (percent)
    sp_credential,    \* is the provider's API key set
    sp_period,        \* the period argument, then the local variable period
    sp_best_end_date, \* detected_period_info.best_end_date (None if no detection)
    sp_converted,     \* has the PDF been converted to images
    sp_attempt,       \* loop variable of the reasoning loop
    sp_result,        \* result (None before the first call)
    sp_retry_context, \* retry_context (None or the context string's content)
    sp_validation,    \* validation of the current attempt
    sp_calls,         \* what each extraction call received, in call order
    sp_results,       \* what each extraction call returned, in call order
    sp_validations,   \* the ValidationResult of each attempt, in order
    sp_returned,      \* the value spread_pdf returned (None until it returns)
    \* ---- spread_pdf_multi_period ----
    mp_pc,            \* position in spread_pdf_multi_period
    mp_doc_type,      \* "income" | "balance"
    mp_max_retries,   \* max_retries argument
    mp_tol,           \* validation_tolerance argument (percent)
    mp_candidates,    \* period_info.candidates (labels) of the detection step
    mp_classification,\* the ColumnClassification object (column_classification,
                      \* and frozen_columns once that name is bound to it)
    mp_classify_calls,\* number of _classify_columns calls made
    mp_reported,      \* result of the classifier model call, before standardization
    mp_frozen,        \* value of the classification when it was frozen
    mp_extract_calls, \* the column instruction of each extraction call made
    mp_periods,       \* extracted_periods
    mp_validations,   \* per-period ValidationResult of step F3
    mp_error,         \* the exception spread_pdf_multi_period raised, if any
    mp_returned,      \* the periods of the returned multi-period result
    \* ---- spread_pdf_combined with _detect_statement_types ----
    cb_pc,            \* position in spread_pdf_combined
    cb_credential,    \* is the detection model provider's API key set
    cb_converted,     \* has the PDF been converted to images
    cb_invoke_failed, \* did the detection model call or its parsing raise
    cb_detection,     \* detection (None before _detect_statement_types returns)
    cb_tasks,         \* per statement type: state of its extraction
    cb_results,       \* income_result, balance_result
    cb_errors,        \* extraction_errors
    cb_calls,         \* doc types spread_pdf_multi_period was called for
    cb_threads,       \* the model-calling steps made, each with the thread it ran on
    cb_returned,      \* the CombinedFinancialExtraction returned (None until then)
    \* ---- _detect_fiscal_period ----
    dt_pc,            \* position in _detect_fiscal_period
    dt_requested,     \* requested_period
    dt_pages,         \* len(base64_images)
    dt_calls,         \* number of pages given to each detection call, in order
    dt_first,         \* first_pass (None before it returns)
    dt_second,        \* second_pass (None if not made)
    dt_returned,      \* the pair returned (None until the function returns)
    \* ---- spread_batch with _process_single_file ----
    bt_pc,            \* position in spread_batch
    bt_request_ok,    \* doc_types parses as JSON and has one entry per file
    bt_parallel,      \* parallel argument
    bt_max_concurrent,\* max_concurrent argument
    bt_files,         \* the submitted files, in submission order
    bt_permits,       \* value of the semaphore
    bt_task,          \* per file: position of its _process_single_file call
    bt_result,        \* per file: the BatchFileResult its call returned
    bt_completed,     \* progress_counter['completed']
    bt_events,        \* progress messages broadcast, in order
    bt_finished,      \* files in the order their calls returned
    bt_next,          \* sequential mode: the file the loop is at
    bt_results,       \* results list of spread_batch
    bt_flag,          \* the module global _fallback_prompt_used
    bt_used,          \* per file: did its own extraction use the fallback prompt
    bt_reported,      \* per file: metadata["fallback_prompt_used"] of its result
    \* ---- spread_multiple_files ----
    mf_pc,            \* position in spread_multiple_files
    mf_count,         \* len(file_paths)
    mf_outcomes,      \* per processed path: did spread_financials return or raise
    mf_results,       \* results
    \* ---- apply_computed_totals_parallel ----
    pt_pc,            \* position in apply_computed_totals_parallel
    pt_tol,           \* tolerance (percent)
    pt_input,         \* extracted_periods as it was handed in
    pt_periods,       \* extracted_periods (its objects are changed in place)
    pt_worker,        \* per submitted task: its position
    pt_access,        \* which thread has read or written which period's data
    \* ---- run_test ----
    rt_pc,            \* position in run_test
    rt_company_known, \* is config.company_id one of TEST_COMPANIES
    rt_parallel,      \* config.parallel
    rt_files,         \* len(company.files)
    rt_outcomes,      \* outcome of each _process_test_file call collected so far
    rt_db,            \* status of the stored record for test_id (None if no record)
    rt_running_saved, \* has the initial RUNNING record been stored
    rt_end            \* how run_test ended: "none" | "returned" | "raised"

rcVars == <<rc_pc, rc_data, rc_orig, rc_tol, rc_corrections, rc_log, rc_validation>>

spVars == <<sp_period, sp_best_end_date, sp_pc, sp_doc_type, sp_max_retries,
            sp_tol, sp_credential, sp_converted,
            sp_attempt, sp_result, sp_retry_context, sp_validation,
            sp_calls, sp_results, sp_validations, sp_returned>>

mpVars == <<mp_pc, mp_doc_type, mp_max_retries, mp_tol, mp_candidates,
            mp_classification, mp_classify_calls, mp_reported, mp_frozen,
            mp_extract_calls,
            mp_periods, mp_validations, mp_error, mp_returned>>

cbVars == <<cb_pc, cb_credential, cb_converted, cb_invoke_failed, cb_detection,
            cb_tasks, cb_results, cb_errors, cb_calls, cb_threads, cb_returned>>

dtVars == <<dt_pc, dt_requested, dt_pages, dt_calls, dt_first, dt_second, dt_returned>>

btVars == <<bt_pc, bt_request_ok, bt_parallel, bt_max_concurrent, bt_files,
            bt_permits, bt_task, bt_result, bt_completed, bt_events, bt_finished,
            bt_next, bt_results, bt_flag, bt_used, bt_reported,
            mf_pc, mf_count, mf_outcomes, mf_results>>

ptVars == <<pt_pc, pt_tol, pt_input, pt_periods, pt_worker, pt_access>>

rtVars == <<rt_pc, rt_company_known, rt_parallel, rt_files, rt_outcomes, rt_db,
            rt_running_saved, rt_end>>

vars == <<rcVars, spVars, mpVars, cbVars, dtVars, btVars, ptVars, rtVars>>

-----------------------------------------------------------------------------
(* Optional values                                                          *)

None == <<>>
Some(v) == <<v>>
IsNone(x) == Len(x) = 0
Val(x) == x[1]
Abs(x) == IF x < 0 THEN -x ELSE x
InSeq(x, s) == \E i \in 1..Len(s) : s[i] = x

-----------------------------------------------------------------------------
(* models.py: LineItem and the statement schemas                            *)

\* LineItem(): value=None, confidence=0.0, raw_fields_used=[]
DefaultLineItem == [value |-> None, confidence |-> 0, raw_fields_used |-> <<>>]

LineItem(v, c, raw) == [value |-> v, confidence |-> c, raw_fields_used |-> raw]

\* The fields of IncomeStatement read or written by validation and
\* reconciliation (the other line items are never touched by either pass).
IncomeFields == {"revenue", "cogs", "gross_profit", "total_operating_expenses",
                 "operating_income", "pretax_income", "income_tax_expense",
                 "net_income"}

\* The fields of BalanceSheet read by validation.
BalanceFields == {"total_assets", "total_liabilities",
                  "total_shareholders_equity", "total_liabilities_and_equity"}

IsIncomeStatement(d) == d.kind = "IncomeStatement"
IsBalanceSheet(d) == d.kind = "BalanceSheet"

LineItemFields(d) == IF IsIncomeStatement(d) THEN IncomeFields ELSE BalanceFields

-----------------------------------------------------------------------------
(* Strings and regular expressions (Python str methods and the re module)   *)
(* Labels are ASCII strings; the en and em dashes of the source's patterns  *)
(* cannot occur in them and are left out of the character classes.          *)

Ch(s, i) == SubSeq(s, i, i)

DigitChars == {"0", "1", "2", "3", "4", "5", "6", "7", "8", "9"}
UpperAlphabet == "ABCDEFGHIJKLMNOPQRSTUVWXYZ"
LowerAlphabet == "abcdefghijklmnopqrstuvwxyz"
Letters == {Ch(UpperAlphabet, i) : i \in 1..Len(UpperAlphabet)}
           \cup {Ch(LowerAlphabet, i) : i \in 1..Len(LowerAlphabet)}
\* \w and \s
WordChars == Letters \cup DigitChars \cup {"_"}
SpaceChars == {" "}

LowerChar(c) ==
    IF \E i \in 1..Len(UpperAlphabet) : Ch(UpperAlphabet, i) = c
    THEN Ch(LowerAlphabet, CHOOSE i \in 1..Len(UpperAlphabet) : Ch(UpperAlphabet, i) = c)
    ELSE c

RECURSIVE LowerFrom(_, _)
LowerFrom(s, i) == IF i > Len(s) THEN "" ELSE LowerChar(Ch(s, i)) \o LowerFrom(s, i + 1)
\* str.lower()
Lower(s) == LowerFrom(s, 1)

\* str.strip()
Strip(s) ==
    LET inside == {i \in 1..Len(s) : Ch(s, i) \notin SpaceChars}
    IN  IF inside = {} THEN ""
        ELSE SubSeq(s, CHOOSE i \in inside : \A j \in inside : i <= j,
                       CHOOSE i \in inside : \A j \in inside : i >= j)

StartsAt(s, i, w) == i + Len(w) - 1 <= Len(s) /\ SubSeq(s, i, i + Len(w) - 1) = w

\* w in s
Contains(s, w) == \E i \in 1..(Len(s) + 1) : StartsAt(s, i, w)

DigitValue(c) == CHOOSE d \in 0..9 : Ch("0123456789", d + 1) = c
DigitString(d) == Ch("0123456789", d + 1)

RECURSIVE ToInt(_)
\* int(s) for a string of digits
ToInt(s) ==
    IF Len(s) = 0 THEN 0
    ELSE 10 * ToInt(SubSeq(s, 1, Len(s) - 1)) + DigitValue(Ch(s, Len(s)))

RECURSIVE ToStr(_)
\* str(n) for n >= 0
ToStr(n) == IF n < 10 THEN DigitString(n) ELSE ToStr(n \div 10) \o DigitString(n % 10)

\* str(year)[-2:]
LastTwo(s) == IF Len(s) <= 2 THEN s ELSE SubSeq(s, Len(s) - 1, Len(s))

\* Regular expressions as syntax trees.
Lit(w) == [t |-> "lit", w |-> w]
Cls(c) == [t |-> "cls", c |-> c]
Cat(rs) == [t |-> "cat", rs |-> rs]
Alt(rs) == [t |-> "alt", rs |-> rs]
Star(r) == [t |-> "star", r |-> r]
Plus(r) == Cat(<<r, Star(r)>>)
Opt(r) == Alt(<<r, Lit("")>>)
Bol == [t |-> "bol"]
Eol == [t |-> "eol"]
WordBoundary == [t |-> "wb"]
Digit == Cls(DigitChars)
Space == Cls(SpaceChars)
Word == Cls(WordChars)

IsWordAt(s, i) == i >= 1 /\ i <= Len(s) /\ Ch(s, i) \in WordChars

RECURSIVE Ends(_, _, _), CatEnds(_, _, _, _), StarEnds(_, _, _, _)
\* The positions j at which a match of re that starts at position i can end
\* (the match is s[i..j-1]).
Ends(re, s, i) ==
    CASE re.t = "lit" -> IF StartsAt(s, i, re.w) THEN {i + Len(re.w)} ELSE {}
      [] re.t = "cls" -> IF i <= Len(s) /\ Ch(s, i) \in re.c THEN {i + 1} ELSE {}
      [] re.t = "cat" -> CatEnds(re.rs, 1, s, {i})
      [] re.t = "alt" -> UNION {Ends(re.rs[k], s, i) : k \in 1..Len(re.rs)}
      [] re.t = "star" -> StarEnds(re.r, s, {i}, {i})
      [] re.t = "bol" -> IF i = 1 THEN {i} ELSE {}
      [] re.t = "eol" -> IF i = Len(s) + 1 THEN {i} ELSE {}
      [] re.t = "wb" -> IF IsWordAt(s, i - 1) # IsWordAt(s, i) THEN {i} ELSE {}

CatEnds(rs, k, s, starts) ==
    IF k > Len(rs) THEN starts
    ELSE CatEnds(rs, k + 1, s, UNION {Ends(rs[k], s, j) : j \in starts})

StarEnds(r, s, frontier, acc) ==
    LET new == (UNION {Ends(r, s, j) : j \in frontier}) \ acc
    IN  IF new = {} THEN acc ELSE StarEnds(r, s, new, acc \cup new)

MatchStarts(re, s) == {i \in 1..(Len(s) + 1) : Ends(re, s, i) # {}}
\* re.search(re, s) is not None
Search(re, s) == MatchStarts(re, s) # {}
\* re.match(re, s) is not None
Match(re, s) == Ends(re, s, 1) # {}
MinOf(S) == CHOOSE i \in S : \A j \in S : i <= j
\* match.start() of re.search: the leftmost position a match starts at
SearchStart(re, s) == MinOf(MatchStarts(re, s))
MaxOf(S) == CHOOSE i \in S : \A j \in S : i >= j

-----------------------------------------------------------------------------
(* period_utils.py                                                          *)

\* MONTH_MAP, in the dict's insertion order
MONTH_MAP ==
    << <<"january", "Jan">>, <<"jan", "Jan">>, <<"february", "Feb">>, <<"feb", "Feb">>,
       <<"march", "Mar">>, <<"mar", "Mar">>, <<"april", "Apr">>, <<"apr", "Apr">>,
       <<"may", "May">>, <<"june", "Jun">>, <<"jun", "Jun">>, <<"july", "Jul">>,
       <<"jul", "Jul">>, <<"august", "Aug">>, <<"aug", "Aug">>,
       <<"september", "Sep">>, <<"sep", "Sep">>, <<"sept", "Sep">>,
       <<"october", "Oct">>, <<"oct", "Oct">>, <<"november", "Nov">>, <<"nov", "Nov">>,
       <<"december", "Dec">>, <<"dec", "Dec">> >>

\* r'(19|20)\d{2}'
RE_year4 == Cat(<<Alt(<<Lit("19"), Lit("20")>>), Digit, Digit>>)
\* the apostrophe form: a quote character, (\d{2}), \b  (the backquote of
\* the source's class cannot be written in a string here and occurs in no label)
RE_year_apostrophe == Cat(<<Cls({"'"}), Digit, Digit, WordBoundary>>)
\* r'fy\s*(\d{2})\b'
RE_year_fy == Cat(<<Lit("fy"), Star(Space), Digit, Digit, WordBoundary>>)

\* 2000 + year_short if year_short < 50 else 1900 + year_short
InferCentury(year_short) == IF year_short < 50 THEN 2000 + year_short ELSE 1900 + year_short

\* The three patterns of _extract_year, given the positions at which each
\* matches (text for the first two, text.lower() for the third).
YearOfMatches(text, low, starts4, starts_apostrophe, starts_fy) ==
    IF starts4 # {}
    THEN Some(ToInt(SubSeq(text, MinOf(starts4), MinOf(starts4) + 3)))
    ELSE IF starts_apostrophe # {}
    THEN Some(InferCentury(ToInt(SubSeq(text, MinOf(starts_apostrophe) + 1,
                                        MinOf(starts_apostrophe) + 2))))
    ELSE IF starts_fy # {}
    THEN Some(InferCentury(ToInt(LastTwo(
                SubSeq(low, 1, MaxOf(Ends(RE_year_fy, low, MinOf(starts_fy))) - 1)))))
    ELSE None

\* _extract_year: None or the year
extract_year(text) ==
    YearOfMatches(text, Lower(text), MatchStarts(RE_year4, text),
                  MatchStarts(RE_year_apostrophe, text),
                  MatchStarts(RE_year_fy, Lower(text)))

\* The keys of MONTH_MAP found in text, by position in the dict.
MonthHits(text) == {k \in 1..Len(MONTH_MAP) : Contains(text, MONTH_MAP[k][1])}
MonthOfHits(hits) == IF hits = {} THEN None ELSE Some(MONTH_MAP[MinOf(hits)][2])

\* _normalize_month: None or the abbreviation of the first key found
normalize_month(text) == MonthOfHits(MonthHits(Strip(Lower(text))))

\* r'^(fy\s?)?\d{2,4}$'
RE_just_year ==
    Cat(<<Bol, Opt(Cat(<<Lit("fy"), Opt(Space)>>)), Digit, Digit,
          Opt(Cat(<<Digit, Opt(Digit)>>)), Eol>>)
\* r'^fy\s*\d{2,4}'
RE_fy_prefix == Cat(<<Bol, Lit("fy"), Star(Space), Digit, Digit>>)
\* r'(january|jan)\s*[-to\s]+(december|dec)'
RE_jan_dec ==
    Cat(<<Alt(<<Lit("january"), Lit("jan")>>), Star(Space),
          Plus(Cls({"-", "t", "o"} \cup SpaceChars)),
          Alt(<<Lit("december"), Lit("dec")>>)>>)
\* r'(12|twelve)\s*months?\s*(ended|ending)'
RE_twelve_months ==
    Cat(<<Alt(<<Lit("12"), Lit("twelve")>>), Star(Space), Lit("month"), Opt(Lit("s")),
          Star(Space), Alt(<<Lit("ended"), Lit("ending")>>)>>)
\* r'(01|1)[/\-](01|1)[/\-]\d{4}\s*[-to]+\s*(12)[/\-](31)[/\-]\d{4}'
RE_full_date_range ==
    Cat(<<Alt(<<Lit("01"), Lit("1")>>), Cls({"/", "-"}), Alt(<<Lit("01"), Lit("1")>>),
          Cls({"/", "-"}), Digit, Digit, Digit, Digit, Star(Space),
          Plus(Cls({"-", "t", "o"})), Star(Space), Lit("12"), Cls({"/", "-"}),
          Lit("31"), Cls({"/", "-"}), Digit, Digit, Digit, Digit>>)

FullYearText(text_lower) ==
    \/ Match(RE_just_year, text_lower)
    \/ Match(RE_fy_prefix, text_lower)
    \/ Contains(text_lower, "year ended") \/ Contains(text_lower, "year ending")
    \/ Search(RE_jan_dec, text_lower)
    \/ Search(RE_twelve_months, text_lower)
    \/ Search(RE_full_date_range, text_lower)

detect_full_year_period(text) == FullYearText(Strip(Lower(text)))

\* r'q\s*([1-4])'
RE_quarter == Cat(<<Lit("q"), Star(Space), Cls({"1", "2", "3", "4"})>>)

\* quarter_ordinals, in the dict's insertion order
QuarterOrdinals ==
    << <<"first", 1>>, <<"1st", 1>>, <<"second", 2>>, <<"2nd", 2>>,
       <<"third", 3>>, <<"3rd", 3>>, <<"fourth", 4>>, <<"4th", 4>> >>

\* The quarter number _detect_quarter_period finds in text_lower (None if
\* none), given where the Q pattern matches and which ordinals occur.
QuarterNumber(text_lower, q_starts, ordinals) ==
    IF q_starts # {}
    THEN Some(ToInt(Ch(text_lower,
                       MaxOf(Ends(RE_quarter, text_lower, MinOf(q_starts))) - 1)))
    ELSE IF ordinals # {}
    THEN Some(QuarterOrdinals[MinOf(ordinals)][2])
    ELSE IF Contains(text_lower, "three months") \/ Contains(text_lower, "3 months")
    THEN IF Contains(text_lower, "march") \/ Contains(text_lower, "mar")
         THEN Some(1)
         ELSE IF Contains(text_lower, "june") \/ Contains(text_lower, "jun")
         THEN Some(2)
         ELSE IF Contains(text_lower, "september") \/ Contains(text_lower, "sep")
         THEN Some(3)
         ELSE IF Contains(text_lower, "december") \/ Contains(text_lower, "dec")
         THEN Some(4)
         ELSE None
    ELSE None

OrdinalHits(text_lower) ==
    {k \in 1..Len(QuarterOrdinals) :
        Contains(text_lower, QuarterOrdinals[k][1]) /\ Contains(text_lower, "quarter")}

\* if not year: return None; otherwise the pair of what was found and year
WithYear(found, year) ==
    IF IsNone(year) \/ IsNone(found) THEN None ELSE Some(<<Val(found), Val(year)>>)

\* _detect_quarter_period: None or <<quarter, year>>
detect_quarter_period(text) ==
    WithYear(QuarterNumber(Strip(Lower(text)),
                           MatchStarts(RE_quarter, Strip(Lower(text))),
                           OrdinalHits(Strip(Lower(text)))),
             extract_year(text))

\* r'(\d+)\s*months?\s*(ended|ending)'
RE_n_months ==
    Cat(<<Plus(Digit), Star(Space), Lit("month"), Opt(Lit("s")), Star(Space),
          Alt(<<Lit("ended"), Lit("ending")>>)>>)
\* r'(january|jan)\s*(?:[-]|to|through|thru)\s*' up to the group (\w+)
RE_jan_through_head ==
    Cat(<<Alt(<<Lit("january"), Lit("jan")>>), Star(Space),
          Alt(<<Cls({"-"}), Lit("to"), Lit("through"), Lit("thru")>>), Star(Space)>>)
RE_jan_through == Cat(<<RE_jan_through_head, Plus(Word)>>)

\* The longest run of characters of class c that starts at position i.
RunEnd(s, i, c) ==
    CHOOSE j \in i..(Len(s) + 1) :
        /\ \A k \in i..(j - 1) : Ch(s, k) \in c
        /\ (j = Len(s) + 1 \/ Ch(s, j) \notin c)

\* group(1) of months_match: the digits the leftmost match starts with
MonthsCount(text_lower, n_start) ==
    ToInt(SubSeq(text_lower, n_start, RunEnd(text_lower, n_start, DigitChars) - 1))

\* The first position after the connector at which group (\w+) can start.
WordStart(text_lower, head_ends) == CHOOSE j \in head_ends : IsWordAt(text_lower, j)

\* group(2) of jan_through_match: the word after the connector
EndMonthText(text_lower, w_start) ==
    SubSeq(text_lower, w_start, RunEnd(text_lower, w_start, WordChars) - 1)

\* if end_month and end_month != 'Dec'
NotDecember(end_month) ==
    IF ~IsNone(end_month) /\ Val(end_month) # "Dec" THEN end_month ELSE None

\* The end month _detect_ytd_period finds in text_lower (None if none).
YtdEndMonth(text_lower, month, n_starts, j_starts) ==
    IF Contains(text_lower, "ytd") /\ ~IsNone(month)
    THEN month
    ELSE IF n_starts # {} /\ MonthsCount(text_lower, MinOf(n_starts)) < 12
            /\ ~IsNone(month)
    THEN month
    ELSE IF j_starts # {}
    THEN NotDecember(normalize_month(
            EndMonthText(text_lower,
                WordStart(text_lower,
                          Ends(RE_jan_through_head, text_lower, MinOf(j_starts))))))
    ELSE None

\* _detect_ytd_period: None or <<month, year>>
detect_ytd_period(text) ==
    IF detect_full_year_period(text) THEN None
    ELSE WithYear(YtdEndMonth(Strip(Lower(text)), normalize_month(Strip(Lower(text))),
                              MatchStarts(RE_n_months, Strip(Lower(text))),
                              MatchStarts(RE_jan_through, Strip(Lower(text)))),
                  extract_year(text))

\* ['through', 'thru', ' to ', '-', 'months'] (and the en and em dashes)
RangeMarkers == {"through", "thru", " to ", "-", "months"}

\* The month _detect_single_month_period finds in text_lower (None if none).
SingleMonth(text_lower) ==
    IF (\E x \in RangeMarkers : Contains(text_lower, x)) /\ ~Contains(text_lower, "ytd")
    THEN None
    ELSE MonthOfHits(MonthHits(text_lower))

\* _detect_single_month_period: None or <<month, year>>
detect_single_month_period(text) ==
    WithYear(SingleMonth(Strip(Lower(text))), extract_year(text))

\* f"FY{str(year)[-2:]}"
FiscalYearLabel(year) == "FY" \o LastTwo(ToStr(year))

\* The label standardize_period_label builds from what the detectors found.
StandardLabel(label, stripped, quarter_info, ytd_info, full_year, month_info, year) ==
    IF label = "" THEN label
    ELSE IF ~IsNone(quarter_info)
    THEN "Q" \o ToStr(Val(quarter_info)[1]) \o LastTwo(ToStr(Val(quarter_info)[2]))
    ELSE IF ~IsNone(ytd_info)
    THEN "YTD-" \o Val(ytd_info)[1] \o "-" \o ToStr(Val(ytd_info)[2])
    ELSE IF full_year /\ ~IsNone(year)
    THEN FiscalYearLabel(Val(year))
    ELSE IF ~IsNone(month_info)
    THEN Val(month_info)[1] \o "-" \o ToStr(Val(month_info)[2])
    ELSE IF ~IsNone(year)
    THEN FiscalYearLabel(Val(year))
    ELSE stripped

standardize_period_label(label) ==
    StandardLabel(label, Strip(label), detect_quarter_period(Strip(label)),
                  detect_ytd_period(Strip(label)),
                  detect_full_year_period(Strip(label)),
                  detect_single_month_period(Strip(label)),
                  extract_year(Strip(label)))

-----------------------------------------------------------------------------
(* spreader.py: validation functions                                        *)

GetValueOrZero(line_item) ==
    IF IsNone(line_item.value) THEN 0 ELSE Val(line_item.value)

\* Mutant of Mismatch: the $1 rounding floor taken as 100 (cents for dollars).
MismatchWrongFloor(diff, reference, tol) ==
    diff * 100 > Abs(reference) * tol /\ diff > 100

\* diff > abs(reference) * tolerance and diff > 1
Mismatch(diff, reference, tol) ==
    diff * 100 > Abs(reference) * tol /\ diff > 1

ValidationResult(errors, calculated) ==
    [is_valid |-> Len(errors) = 0, errors |-> errors, calculated_values |-> calculated]

validate_income_statement(data, tol) ==
    LET revenue == GetValueOrZero(data.revenue)
        cogs == GetValueOrZero(data.cogs)
        gross_profit == GetValueOrZero(data.gross_profit)
        operating_income == GetValueOrZero(data.operating_income)
        total_opex == GetValueOrZero(data.total_operating_expenses)
        pretax_income == GetValueOrZero(data.pretax_income)
        tax_expense == GetValueOrZero(data.income_tax_expense)
        net_income == GetValueOrZero(data.net_income)
        calc_gross_profit == revenue - cogs
        calc_operating_income == gross_profit - total_opex
        calc_net_income == pretax_income - tax_expense
        check1 == revenue # 0 /\ cogs # 0
        check2 == gross_profit # 0 /\ total_opex # 0
        check3 == pretax_income # 0
        e1 == IF check1 /\ gross_profit # 0
                 /\ Mismatch(Abs(calc_gross_profit - gross_profit), gross_profit, tol)
              THEN <<[error |-> "Gross Profit mismatch",
                      calculated |-> calc_gross_profit, extracted |-> gross_profit]>>
              ELSE <<>>
        e2 == IF check2 /\ operating_income # 0
                 /\ Mismatch(Abs(calc_operating_income - operating_income), operating_income, tol)
              THEN <<[error |-> "Operating Income mismatch",
                      calculated |-> calc_operating_income, extracted |-> operating_income]>>
              ELSE <<>>
        e3 == IF check3 /\ net_income # 0
                 /\ Mismatch(Abs(calc_net_income - net_income), net_income, tol)
              THEN <<[error |-> "Net Income mismatch",
                      calculated |-> calc_net_income, extracted |-> net_income]>>
              ELSE <<>>
        c1 == IF check1 THEN <<<<"gross_profit", calc_gross_profit>>>> ELSE <<>>
        c2 == IF check2 THEN <<<<"operating_income", calc_operating_income>>>> ELSE <<>>
        c3 == IF check3 THEN <<<<"net_income", calc_net_income>>>> ELSE <<>>
    IN  ValidationResult(e1 \o e2 \o e3, c1 \o c2 \o c3)

validate_balance_sheet(data, tol) ==
    LET total_assets == GetValueOrZero(data.total_assets)
        total_liabilities == GetValueOrZero(data.total_liabilities)
        total_equity == GetValueOrZero(data.total_shareholders_equity)
        total_liab_equity == GetValueOrZero(data.total_liabilities_and_equity)
        calc_total == total_liabilities + total_equity
        check1 == total_liabilities # 0 /\ total_equity # 0
        e1 == IF check1 /\ total_assets # 0
                 /\ Mismatch(Abs(calc_total - total_assets), total_assets, tol)
              THEN <<[error |-> "Balance Sheet equation error",
                      calculated |-> calc_total, extracted |-> total_assets]>>
              ELSE <<>>
        e2 == IF total_liab_equity # 0 /\ total_assets # 0
                 /\ Mismatch(Abs(total_liab_equity - total_assets), total_assets, tol)
              THEN <<[error |-> "Total mismatch",
                      calculated |-> total_liab_equity, extracted |-> total_assets]>>
              ELSE <<>>
        c1 == IF check1 THEN <<<<"total_liabilities_and_equity", calc_total>>>> ELSE <<>>
    IN  ValidationResult(e1 \o e2, c1)

validate_spread(data, tol) ==
    IF IsIncomeStatement(data) THEN validate_income_statement(data, tol)
    ELSE validate_balance_sheet(data, tol)

-----------------------------------------------------------------------------
(* spreader.py: apply_computed_totals                                       *)

\* data.gross_profit.confidence = 0.7  # Computed, not extracted
ComputedConfidence == 70

\* Mutant of ComputedItem: the filled value keeps the confidence and the
\* provenance of an extracted one.
ComputedItemAsExtracted(v) ==
    [value |-> Some(v), confidence |-> 95, raw_fields_used |-> <<"EXTRACTED">>]

ComputedItem(v) ==
    [value |-> Some(v), confidence |-> ComputedConfidence,
     raw_fields_used |-> <<"COMPUTED">>]

\* Mutant of FillGrossProfit: computed totals win over extracted ones.
FillGrossProfitAlways(data) ==
    /\ GetValueOrZero(data.revenue) # 0
    /\ GetValueOrZero(data.cogs) # 0

\* if gross_profit == 0 or data.gross_profit.value is None
FillGrossProfit(data) ==
    /\ GetValueOrZero(data.revenue) # 0
    /\ GetValueOrZero(data.cogs) # 0
    /\ (GetValueOrZero(data.gross_profit) = 0 \/ IsNone(data.gross_profit.value))

\* Returns the updated statement, the corrections list and the warnings logged.
apply_computed_totals(data, tol) ==
    LET revenue == GetValueOrZero(data.revenue)
        cogs == GetValueOrZero(data.cogs)
        gross_profit0 == GetValueOrZero(data.gross_profit)
        computable_gp == revenue # 0 /\ cogs # 0
        computed_gp == revenue - cogs
        fill_gp == FillGrossProfit(data)
        d1 == IF fill_gp THEN [data EXCEPT !.gross_profit = ComputedItem(computed_gp)]
              ELSE data
        corr1 == IF fill_gp THEN <<<<"Computed gross_profit", computed_gp>>>> ELSE <<>>
        log1 == IF computable_gp /\ ~fill_gp
                   /\ Mismatch(Abs(computed_gp - gross_profit0), gross_profit0, tol)
                THEN <<"gross_profit mismatch">> ELSE <<>>
        gross_profit == IF fill_gp THEN computed_gp ELSE gross_profit0
        total_opex == GetValueOrZero(d1.total_operating_expenses)
        operating_income == GetValueOrZero(d1.operating_income)
        computable_oi == gross_profit # 0 /\ total_opex # 0
        computed_oi == gross_profit - total_opex
        fill_oi == computable_oi
                   /\ (operating_income = 0 \/ IsNone(d1.operating_income.value))
        d2 == IF fill_oi THEN [d1 EXCEPT !.operating_income = ComputedItem(computed_oi)]
              ELSE d1
        corr2 == IF fill_oi THEN <<<<"Computed operating_income", computed_oi>>>> ELSE <<>>
        log2 == IF computable_oi /\ ~fill_oi
                   /\ Mismatch(Abs(computed_oi - operating_income), operating_income, tol)
                THEN <<"operating_income mismatch">> ELSE <<>>
    IN  [data |-> d2, corrections |-> corr1 \o corr2, log |-> log1 \o log2]

-----------------------------------------------------------------------------
(* Statements handed to the validator / reconciler                          *)

Extracted(v) == LineItem(Some(v), 95, <<"EXTRACTED">>)
NotFound == LineItem(None, 0, <<"NOT FOUND">>)

\* A line item as a model may emit it: the schema accepts any confidence in
\* [0, 1] with any value, null included.
Items(values, confidences) ==
    {LineItem(Some(v), c, <<"EXTRACTED">>) : v \in values, c \in confidences \ {0}}
    \cup {LineItem(None, c, <<"NOT FOUND">>) : c \in confidences}

IncomeInputs ==
    [kind : {"IncomeStatement"},
     revenue : Items({0, 1000}, {0, 95}),
     cogs : Items({0, 400}, {0, 95}),
     gross_profit : Items({0, 600, 599, 550}, {0, 50, 95}),
     total_operating_expenses : Items({200}, {0, 95}),
     operating_income : Items({0, 400, 350}, {0, 95}),
     pretax_income : {NotFound, Extracted(400)},
     income_tax_expense : {NotFound, Extracted(100)},
     net_income : {NotFound, Extracted(300), Extracted(250)},
     fiscal_period : {None}]

BalanceInputs ==
    [kind : {"BalanceSheet"},
     total_assets : Items({-1000, -1, 0, 1, 3, 1000, 1040, 1060}, {0, 95}),
     total_liabilities : Items({-600, 0, 1, 600}, {0, 95}),
     total_shareholders_equity : Items({-420, 0, 1, 400}, {0, 95}),
     total_liabilities_and_equity : {NotFound, Extracted(1000), Extracted(1100)},
     as_of_date : {None}]

\* validation_tolerance: default 0.05; apply_computed_totals default 0.01
Tolerances == {1, 5}

NoValidation == [is_valid |-> TRUE, errors |-> <<"not run">>, calculated_values |-> <<>>]

\* The reconciler group at rest / given a statement to work on.
IdleRecon ==
    /\ rc_pc = "idle"
    /\ rc_data = None
    /\ rc_orig = None
    /\ rc_tol = 5
    /\ rc_corrections = <<>>
    /\ rc_log = <<>>
    /\ rc_validation = NoValidation

StartRecon ==
    /\ rc_pc = "input"
    /\ rc_data \in IncomeInputs \cup BalanceInputs
    /\ rc_orig = rc_data
    /\ rc_tol \in Tolerances
    /\ rc_corrections = <<>>
    /\ rc_log = <<>>
    /\ rc_validation = NoValidation

\* result, corrections = apply_computed_totals(result, tolerance=...)
ReconApply ==
    /\ rc_pc = "input"
    /\ IsIncomeStatement(rc_data)
    /\ LET r == apply_computed_totals(rc_data, rc_tol)
       IN  /\ rc_data' = r.data
           /\ rc_corrections' = r.corrections
           /\ rc_log' = r.log
    /\ rc_pc' = "applied"
    /\ UNCHANGED <<rc_orig, rc_tol, rc_validation>>
    /\ UNCHANGED <<spVars, mpVars, cbVars, dtVars, btVars, ptVars, rtVars>>

\* validation = validate_spread(result, tolerance=...)
ReconValidate ==
    /\ rc_pc \in {"input", "applied"}
    /\ rc_validation' = validate_spread(rc_data, rc_tol)
    /\ rc_pc' = "validated"
    /\ UNCHANGED <<rc_data, rc_orig, rc_tol, rc_corrections, rc_log>>
    /\ UNCHANGED <<spVars, mpVars, cbVars, dtVars, btVars, ptVars, rtVars>>

NextRecon == ReconApply \/ ReconValidate

-----------------------------------------------------------------------------
(* spreader.py: spread_pdf, the single-period reasoning loop                 *)

\* The period argument: the default "Latest" or a label given by the caller.
RequestedPeriods == {"Latest", "Jan 2025"}

\* best_period values a detection model returns ("" when it finds none).
DetectedPeriods == {"", "2024", "Jan 2025"}

\* Column headers a classifier model reads as periods.
RawPeriodLabels == {"Jan 2025", "Jan-Dec 2024", "2024"}

\* Labels the extraction model puts in its periods.
ExtractedLabels == {"Jan 2025", "Jan-2025", "FY24", "Total"}

\* standardize_period_label tabulated over the labels of the model and their
\* images, so that each label is standardized once.
ModelLabels ==
    LET raw == RequestedPeriods \cup (DetectedPeriods \ {""}) \cup RawPeriodLabels
               \cup ExtractedLabels
    IN  raw \cup {standardize_period_label(l) : l \in raw}

StandardLabelOf == [l \in ModelLabels |-> standardize_period_label(l)]

\* _should_autodetect_period
should_autodetect_period(period) ==
    Lower(Strip(period)) \in {"", "latest", "auto", "detect", "autodetect"}

\* Largest max_retries explored.
MaxRetries == 2

Income(rev, cogs, gp, opex, oi, pretax, tax, net) ==
    [kind |-> "IncomeStatement", revenue |-> rev, cogs |-> cogs, gross_profit |-> gp,
     total_operating_expenses |-> opex, operating_income |-> oi,
     pretax_income |-> pretax, income_tax_expense |-> tax, net_income |-> net,
     fiscal_period |-> None]

Balance(ta, tl, te, tle) ==
    [kind |-> "BalanceSheet", total_assets |-> ta, total_liabilities |-> tl,
     total_shareholders_equity |-> te, total_liabilities_and_equity |-> tle,
     as_of_date |-> None]

\* What structured_llm.invoke can return for a schema: any instance of it.
\* A few instances that pass validation and a few that fail it in
\* different ways; one carries a null value with a non-zero confidence,
\* which the LineItem schema accepts.
IncomeOutputs ==
    { [Income(Extracted(1000), Extracted(400), Extracted(600), NotFound, NotFound,
              NotFound, NotFound, NotFound) EXCEPT !.fiscal_period = Some("Jan 2025")],
      Income(Extracted(1000), Extracted(400), NotFound, Extracted(200), NotFound,
             NotFound, NotFound, NotFound),
      Income(Extracted(1000), Extracted(400), Extracted(550), NotFound, NotFound,
             LineItem(None, 50, <<"NOT FOUND">>), NotFound, NotFound),
      Income(Extracted(1000), Extracted(400), LineItem(None, 50, <<"NOT FOUND">>),
             NotFound, NotFound, Extracted(400), Extracted(100), Extracted(250)) }

BalanceOutputs ==
    { Balance(Extracted(1000), Extracted(600), Extracted(400), NotFound),
      [Balance(Extracted(1060), Extracted(600), Extracted(400), NotFound)
          EXCEPT !.as_of_date = Some("2024-12-31")],
      Balance(Extracted(1000), Extracted(600), Extracted(400), Extracted(1100)),
      Balance(LineItem(None, 50, <<"NOT FOUND">>), Extracted(600), Extracted(400),
              NotFound) }

\* get_schema_for_doc_type + with_structured_output(schema_class)
SchemaOutputs(doc_type) ==
    IF doc_type = "income" THEN IncomeOutputs ELSE BalanceOutputs

\* Mutant of InRange: one iteration too many.
InRangeOffByOne(attempt, max_retries) == attempt < max_retries + 2

\* for attempt in range(max_retries + 1)
InRange(attempt, max_retries) == attempt < max_retries + 1

\* if attempt < max_retries
RetryAllowed(attempt, max_retries) == attempt < max_retries

\* Mutant of BuildRetryContext: the context, once built, is never rebuilt.
BuildRetryContextOnce(old, validation, result) ==
    IF IsNone(old)
    THEN Some([errors |-> validation.errors,
               calculated_values |-> validation.calculated_values,
               previous_extraction |-> result])
    ELSE old

\* retry_context = "Validation errors: ..." + "Calculated values: ..." +
\*                 "Previous extraction (JSON): ..."
BuildRetryContext(old, validation, result) ==
    Some([errors |-> validation.errors,
          calculated_values |-> validation.calculated_values,
          previous_extraction |-> result])

\* _invoke_llm_for_spreading: the human message text carries the retry
\* context when one is given and nothing of it otherwise.
HumanMessage(retry_context) ==
    IF IsNone(retry_context)
    THEN [is_retry |-> FALSE, previous_errors |-> None]
    ELSE [is_retry |-> TRUE, previous_errors |-> retry_context]

\* Mutant of ExhaustedNext: a validation failure with no retries left is raised.
ExhaustedRaises == "raised"

\* Max retries reached: the error is logged and the loop falls through.
ExhaustedNext == "post"

IdleSingle ==
    /\ sp_pc = "idle"
    /\ sp_period = "Latest"
    /\ sp_best_end_date = None
    /\ sp_doc_type = "income"
    /\ sp_max_retries = 0
    /\ sp_tol = 5
    /\ sp_credential = TRUE
    /\ sp_converted = FALSE
    /\ sp_attempt = 0
    /\ sp_result = None
    /\ sp_retry_context = None
    /\ sp_validation = NoValidation
    /\ sp_calls = <<>>
    /\ sp_results = <<>>
    /\ sp_validations = <<>>
    /\ sp_returned = None

StartSingle ==
    /\ sp_pc = "convert"
    /\ sp_period \in RequestedPeriods
    /\ sp_best_end_date = None
    /\ sp_doc_type \in {"income", "balance"}
    /\ sp_max_retries \in (-1)..MaxRetries
    /\ sp_tol \in Tolerances
    /\ sp_credential \in BOOLEAN
    /\ sp_converted = FALSE
    /\ sp_attempt = 0
    /\ sp_result = None
    /\ sp_retry_context = None
    /\ sp_validation = NoValidation
    /\ sp_calls = <<>>
    /\ sp_results = <<>>
    /\ sp_validations = <<>>
    /\ sp_returned = None

\* STEP A: base64_images = _convert_pdf_to_images(...); may raise on a
\* missing or unreadable file.
SpConvert ==
    /\ sp_pc = "convert"
    /\ \/ sp_converted' = TRUE /\ sp_pc' = "detect"
       \/ sp_converted' = FALSE /\ sp_pc' = "raised"
    /\ UNCHANGED <<sp_period, sp_best_end_date, sp_doc_type, sp_max_retries,
                   sp_tol, sp_credential, sp_attempt,
                   sp_result, sp_retry_context, sp_validation, sp_calls,
                   sp_results, sp_validations, sp_returned>>
    /\ UNCHANGED <<rcVars, mpVars, cbVars, dtVars, btVars, ptVars, rtVars>>

\* The period auto-detection block: _detect_fiscal_period is called when
\* the period asks for it; it returns the requested period when there are
\* no pages or no usable best_period, a detected label otherwise, and the
\* detection it is based on; its model calls may raise.
SpDetect ==
    /\ sp_pc = "detect"
    /\ IF should_autodetect_period(sp_period)
       THEN \/ \E best \in DetectedPeriods, end_date \in {None, Some("2024-12-31")} :
                 /\ sp_period' = IF best # "" THEN best ELSE sp_period
                 /\ sp_best_end_date' = end_date
                 /\ sp_pc' = "create_llm"
            \/ /\ sp_pc' = "raised"      \* a detection model call raised
               /\ UNCHANGED <<sp_period, sp_best_end_date>>
       ELSE /\ sp_pc' = "create_llm"
            /\ UNCHANGED <<sp_period, sp_best_end_date>>
    /\ UNCHANGED <<sp_doc_type, sp_max_retries, sp_tol, sp_credential, sp_converted,
                   sp_attempt, sp_result, sp_retry_context, sp_validation, sp_calls,
                   sp_results, sp_validations, sp_returned>>
    /\ UNCHANGED <<rcVars, mpVars, cbVars, dtVars, btVars, ptVars, rtVars>>

\* STEPS B-D: schema, prompt, model selection, llm = create_llm(...), which
\* raises when the provider's API key is missing; then the loop is entered
\* with result = None, retry_context = None.
SpCreateLLM ==
    /\ sp_pc = "create_llm"
    /\ sp_pc' = IF ~sp_credential THEN "raised"
                ELSE IF InRange(0, sp_max_retries) THEN "invoke" ELSE "post"
    /\ sp_attempt' = 0
    /\ sp_result' = None
    /\ sp_retry_context' = None
    /\ UNCHANGED <<sp_period, sp_best_end_date, sp_doc_type, sp_max_retries,
                   sp_tol, sp_credential, sp_converted,
                   sp_validation, sp_calls, sp_results, sp_validations, sp_returned>>
    /\ UNCHANGED <<rcVars, mpVars, cbVars, dtVars, btVars, ptVars, rtVars>>

\* result = _invoke_llm_for_spreading(..., retry_context=retry_context)
SpInvoke ==
    /\ sp_pc = "invoke"
    /\ sp_calls' = Append(sp_calls, HumanMessage(sp_retry_context))
    /\ \/ \E r \in SchemaOutputs(sp_doc_type) :
            /\ sp_result' = Some(r)
            /\ sp_results' = Append(sp_results, r)
            /\ sp_pc' = "validate"
       \/ /\ sp_pc' = "raised"          \* the model call raised
          /\ UNCHANGED <<sp_result, sp_results>>
    /\ UNCHANGED <<sp_period, sp_best_end_date, sp_doc_type, sp_max_retries,
                   sp_tol, sp_credential, sp_converted,
                   sp_attempt, sp_retry_context, sp_validation, sp_validations,
                   sp_returned>>
    /\ UNCHANGED <<rcVars, mpVars, cbVars, dtVars, btVars, ptVars, rtVars>>

\* validation = validate_spread(result, ...); break on success, else build
\* the retry context if a retry is left, and go round the loop.
SpValidate ==
    /\ sp_pc = "validate"
    /\ LET validation == validate_spread(Val(sp_result), sp_tol)
           next == sp_attempt + 1
       IN  /\ sp_validation' = validation
           /\ sp_validations' = Append(sp_validations, validation)
           /\ IF validation.is_valid
              THEN /\ sp_pc' = "post"
                   /\ UNCHANGED <<sp_attempt, sp_retry_context>>
              ELSE /\ sp_attempt' = next
                   /\ sp_retry_context' =
                        IF RetryAllowed(sp_attempt, sp_max_retries)
                        THEN BuildRetryContext(sp_retry_context, validation, Val(sp_result))
                        ELSE sp_retry_context
                   /\ sp_pc' = IF InRange(next, sp_max_retries) THEN "invoke"
                               ELSE ExhaustedNext
    /\ UNCHANGED <<sp_period, sp_best_end_date, sp_doc_type, sp_max_retries,
                   sp_tol, sp_credential, sp_converted,
                   sp_result, sp_calls, sp_results, sp_returned>>
    /\ UNCHANGED <<rcVars, mpVars, cbVars, dtVars, btVars, ptVars, rtVars>>

\* The metadata enrichment at the end of spread_pdf: an income statement
\* without fiscal_period gets the standardized period, one with it gets its
\* own label standardized; a balance sheet without as_of_date gets the
\* detected end date when there is one.
EnrichMetadata(result, period, best_end_date) ==
    IF IsIncomeStatement(result)
    THEN [result EXCEPT !.fiscal_period =
            IF IsNone(result.fiscal_period)
            THEN Some(StandardLabelOf[period])
            ELSE Some(StandardLabelOf[Val(result.fiscal_period)])]
    ELSE [result EXCEPT !.as_of_date =
            IF IsNone(result.as_of_date) /\ ~IsNone(best_end_date)
            THEN best_end_date
            ELSE result.as_of_date]

\* STEP F: the isinstance check, apply_computed_totals for an income
\* statement, the metadata enrichment, then return result.
SpPost ==
    /\ sp_pc = "post"
    /\ IF IsNone(sp_result)
       THEN /\ sp_pc' = "raised"        \* ValueError: Unexpected result type
            /\ UNCHANGED <<sp_result, sp_returned, sp_period>>
       ELSE LET result == Val(sp_result)
                computed == IF IsIncomeStatement(result)
                            THEN apply_computed_totals(result, sp_tol).data
                            ELSE result
                final == EnrichMetadata(computed, sp_period, sp_best_end_date)
            IN  /\ sp_period' = StandardLabelOf[sp_period]
                /\ sp_result' = Some(final)
                /\ sp_returned' = Some(final)
                /\ sp_pc' = "done"
    /\ UNCHANGED <<sp_best_end_date, sp_doc_type, sp_max_retries, sp_tol,
                   sp_credential, sp_converted,
                   sp_attempt, sp_retry_context, sp_validation, sp_calls,
                   sp_results, sp_validations>>
    /\ UNCHANGED <<rcVars, mpVars, cbVars, dtVars, btVars, ptVars, rtVars>>

NextSingle == SpConvert \/ SpDetect \/ SpCreateLLM \/ SpInvoke \/ SpValidate \/ SpPost

-----------------------------------------------------------------------------
(* spreader.py: _classify_columns, _invoke_llm_for_multi_period_spreading,   *)
(* spread_pdf_multi_period                                                   *)

\* Longest period_columns list the classifier model returns.
MaxColumns == 2
\* Longest periods list the extraction model returns.
MaxPeriods == 2

SeqsUpTo(S, n) == UNION {[1..k -> S] : k \in 0..n}

\* Column headers a classifier model reads as rollups.
RawRollups == {<<>>, <<"Total">>}

\* What structured_llm.invoke returns for ColumnClassification.
ClassifierOutputs ==
    [period_columns : SeqsUpTo(RawPeriodLabels, MaxColumns), rollup_columns : RawRollups]

\* Mutant of StandardizeClassification: the labels are kept as reported.
StandardizeClassificationVerbatim(result) == result

\* _classify_columns after the model call: every period label goes through
\* standardize_period_label; the rollup columns are left as they are.
StandardizeClassification(result) ==
    [result EXCEPT !.period_columns =
        [i \in 1..Len(result.period_columns) |->
            StandardLabelOf[result.period_columns[i]]]]

\* Mutant of HasPeriodColumns: the emptiness check is made on all columns.
HasAnyColumns(cc) == cc.period_columns # <<>> \/ cc.rollup_columns # <<>>

\* if not column_classification.period_columns: raise ValueError(...)
HasPeriodColumns(cc) == cc.period_columns # <<>>

\* Mutant of ColumnInstruction: the labels are standardized once more when
\* the instruction is built.
ColumnInstructionRestandardized(cc) ==
    [extract |-> [i \in 1..Len(cc.period_columns) |->
                     StandardLabelOf[cc.period_columns[i]]],
     ignore |-> cc.rollup_columns]

\* column_instruction: EXTRACT DATA FROM THESE PERIOD COLUMNS ONLY: period_cols,
\* DO NOT EXTRACT DATA FROM THESE ROLLUP/TOTAL COLUMNS: rollup_cols
\* (an empty rollup list is printed as "(none detected)").
ColumnInstruction(cc) ==
    [extract |-> cc.period_columns, ignore |-> cc.rollup_columns]

PeriodData(doc_type) ==
    IF doc_type = "income"
    THEN { Income(Extracted(1000), Extracted(400), NotFound, Extracted(200), NotFound,
                  NotFound, NotFound, NotFound),
           Income(Extracted(1000), Extracted(400), Extracted(550), NotFound, NotFound,
                  NotFound, NotFound, NotFound) }
    ELSE { Balance(Extracted(1000), Extracted(600), Extracted(400), NotFound),
           Balance(Extracted(1060), Extracted(600), Extracted(400), NotFound) }

\* What structured_llm.invoke returns for the multi-period extraction schema.
ExtractionOutputs(doc_type) ==
    SeqsUpTo([period_label : ExtractedLabels, data : PeriodData(doc_type)], MaxPeriods)

\* Mutant of OnExtractionError: the failed call is made again.
OnExtractionErrorRetry == "extract"

\* except Exception as e: raise ValueError(f"Failed to extract periods ...")
OnExtractionError == "raised"

NoClassification == [period_columns |-> <<"unset">>, rollup_columns |-> <<"unset">>]

IdleMulti ==
    /\ mp_pc = "idle"
    /\ mp_doc_type = "income"
    /\ mp_max_retries = 0
    /\ mp_tol = 5
    /\ mp_candidates = <<>>
    /\ mp_classification = NoClassification
    /\ mp_classify_calls = 0
    /\ mp_reported = NoClassification
    /\ mp_frozen = NoClassification
    /\ mp_extract_calls = <<>>
    /\ mp_periods = <<>>
    /\ mp_validations = <<>>
    /\ mp_error = "none"
    /\ mp_returned = None

StartMulti ==
    /\ mp_pc = "convert"
    /\ mp_doc_type \in {"income", "balance"}
    /\ mp_max_retries \in {0, MaxRetries}
    /\ mp_tol = 5
    /\ mp_candidates = <<>>
    /\ mp_classification = NoClassification
    /\ mp_classify_calls = 0
    /\ mp_reported = NoClassification
    /\ mp_frozen = NoClassification
    /\ mp_extract_calls = <<>>
    /\ mp_periods = <<>>
    /\ mp_validations = <<>>
    /\ mp_error = "none"
    /\ mp_returned = None

\* STEPS A-C: page conversion, model configuration, _detect_fiscal_period
\* with requested_period "Latest"; any of them may raise.
MpDetect ==
    /\ mp_pc = "convert"
    /\ \/ /\ mp_candidates' \in {<<>>, <<"Jan 2025", "2024">>}
          /\ mp_pc' = "classify"
          /\ UNCHANGED mp_error
       \/ /\ mp_pc' = "raised"
          /\ mp_error' = "detection failed"
          /\ UNCHANGED mp_candidates
    /\ UNCHANGED <<mp_doc_type, mp_max_retries, mp_tol, mp_classification,
                   mp_classify_calls, mp_reported, mp_frozen, mp_extract_calls, mp_periods,
                   mp_validations, mp_returned>>
    /\ UNCHANGED <<rcVars, spVars, cbVars, dtVars, btVars, ptVars, rtVars>>

\* STEP D: column_classification = _classify_columns(...)
MpClassify ==
    /\ mp_pc = "classify"
    /\ mp_classify_calls' = mp_classify_calls + 1
    /\ \/ \E result \in ClassifierOutputs :
            /\ mp_reported' = result
            /\ mp_classification' = StandardizeClassification(result)
            /\ mp_pc' = "check"
            /\ UNCHANGED mp_error
       \/ /\ mp_pc' = "raised"          \* the classifier model call raised
          /\ mp_error' = "classification failed"
          /\ UNCHANGED <<mp_classification, mp_reported>>
    /\ UNCHANGED <<mp_doc_type, mp_max_retries, mp_tol, mp_candidates, mp_frozen,
                   mp_extract_calls, mp_periods, mp_validations, mp_returned>>
    /\ UNCHANGED <<rcVars, spVars, cbVars, dtVars, btVars, ptVars, rtVars>>

\* The empty check, then frozen_columns = column_classification and the
\* prompt load.
MpFreeze ==
    /\ mp_pc = "check"
    /\ IF HasPeriodColumns(mp_classification)
       THEN /\ mp_frozen' = mp_classification
            /\ mp_pc' = "extract"
            /\ UNCHANGED mp_error
       ELSE /\ mp_pc' = "raised"
            /\ mp_error' = "ValueError: No period columns detected after classification"
            /\ UNCHANGED mp_frozen
    /\ UNCHANGED <<mp_doc_type, mp_max_retries, mp_tol, mp_candidates,
                   mp_classification, mp_classify_calls, mp_reported, mp_extract_calls,
                   mp_periods, mp_validations, mp_returned>>
    /\ UNCHANGED <<rcVars, spVars, cbVars, dtVars, btVars, ptVars, rtVars>>

\* STEP E: the single extraction call with frozen_columns, the label
\* standardization of the extracted periods, the except clause and the
\* empty-result check.
MpExtract ==
    /\ mp_pc = "extract"
    /\ mp_extract_calls' = Append(mp_extract_calls, ColumnInstruction(mp_classification))
    /\ \/ \E out \in ExtractionOutputs(mp_doc_type) :
            /\ mp_periods' = [i \in 1..Len(out) |->
                                [out[i] EXCEPT !.period_label =
                                    StandardLabelOf[out[i].period_label]]]
            /\ IF Len(out) = 0
               THEN /\ mp_pc' = "raised"
                    /\ mp_error' = "ValueError: LLM extraction returned no periods"
               ELSE /\ mp_pc' = "totals"
                    /\ UNCHANGED mp_error
       \/ /\ mp_pc' = OnExtractionError  \* the extraction model call raised
          /\ mp_error' = "ValueError: Failed to extract periods from document"
          /\ UNCHANGED mp_periods
    /\ UNCHANGED <<mp_doc_type, mp_max_retries, mp_tol, mp_candidates,
                   mp_classification, mp_classify_calls, mp_reported, mp_frozen,
                   mp_validations, mp_returned>>
    /\ UNCHANGED <<rcVars, spVars, cbVars, dtVars, btVars, ptVars, rtVars>>

\* STEP F1: apply_computed_totals_parallel for income statements.
MpComputeTotals ==
    /\ mp_pc = "totals"
    /\ mp_periods' =
         IF mp_doc_type = "income"
         THEN [i \in 1..Len(mp_periods) |->
                 [mp_periods[i] EXCEPT !.data =
                     apply_computed_totals(mp_periods[i].data, mp_tol).data]]
         ELSE mp_periods
    /\ mp_pc' = "validate"
    /\ UNCHANGED <<mp_doc_type, mp_max_retries, mp_tol, mp_candidates,
                   mp_classification, mp_classify_calls, mp_reported, mp_frozen,
                   mp_extract_calls, mp_validations, mp_error, mp_returned>>
    /\ UNCHANGED <<rcVars, spVars, cbVars, dtVars, btVars, ptVars, rtVars>>

\* STEPS F2, F3: the consistency audit (logs only) and validate_periods_parallel
\* (logs only); STEP G: the result is built from extracted_periods and returned.
MpValidateAndReturn ==
    /\ mp_pc = "validate"
    /\ mp_validations' = [i \in 1..Len(mp_periods) |->
                            validate_spread(mp_periods[i].data, mp_tol)]
    /\ mp_returned' = Some(mp_periods)
    /\ mp_pc' = "done"
    /\ UNCHANGED <<mp_doc_type, mp_max_retries, mp_tol, mp_candidates,
                   mp_classification, mp_classify_calls, mp_reported, mp_frozen,
                   mp_extract_calls, mp_periods, mp_error>>
    /\ UNCHANGED <<rcVars, spVars, cbVars, dtVars, btVars, ptVars, rtVars>>

NextMulti ==
    MpDetect \/ MpClassify \/ MpFreeze \/ MpExtract \/ MpComputeTotals
    \/ MpValidateAndReturn

-----------------------------------------------------------------------------
(* spreader.py: _detect_statement_types and spread_pdf_combined             *)

StatementTypes == {"income", "balance"}

\* StatementTypeDetection
Detection(has_is, has_bs, conf, notes) ==
    [has_income_statement |-> has_is, has_balance_sheet |-> has_bs,
     confidence |-> conf, notes |-> notes]

\* What structured_llm.invoke returns for StatementTypeDetection.
DetectionOutputs ==
    {Detection(i, b, c, "") : i \in BOOLEAN, b \in BOOLEAN, c \in {0, 50, 90}}

\* Mutant of DetectionOnFailure: a failed detection claims both statements.
DetectionOnFailureOptimistic == Detection(TRUE, TRUE, 0, "Detection failed")

\* except Exception as e: return StatementTypeDetection(has_income_statement=False,
\*     has_balance_sheet=False, confidence=0.0, notes=f"Detection failed: ...")
DetectionOnFailure == Detection(FALSE, FALSE, 0, "Detection failed")

Detected(detection, t) ==
    IF t = "income" THEN detection.has_income_statement
    ELSE detection.has_balance_sheet

\* Mutant of NoStatements: only a detection of confidence 0 counts as empty.
NoStatementsZeroConfidence(detection) ==
    /\ ~detection.has_income_statement /\ ~detection.has_balance_sheet
    /\ detection.confidence = 0

\* if not detection.has_income_statement and not detection.has_balance_sheet
NoStatements(detection) ==
    ~detection.has_income_statement /\ ~detection.has_balance_sheet

\* CombinedFinancialExtraction; note is extraction_metadata["error"] ("" when
\* the key is absent), errors is extraction_metadata["extraction_errors"].
CombinedExtraction(income, balance, detection, note, errors) ==
    [income_statement |-> income, balance_sheet |-> balance,
     detected_types |-> detection, note |-> note, extraction_errors |-> errors]

\* What a spread_pdf_multi_period call returns for a document type.
MultiPeriodResults(t) == {[doc_type |-> t, periods |-> n] : n \in 1..2}

TaskIdle == [state |-> "idle", value |-> None]
TaskRunning == [state |-> "running", value |-> None]

\* Mutant of AfterExtraction: an exception of an extraction is raised again.
AfterExtractionPropagating(tasks) ==
    IF \E t \in StatementTypes : tasks[t].state = "raised" THEN "raised" ELSE "done"

\* asyncio.gather(..., return_exceptions=True) and the try/except around a
\* single extraction: the function goes on to build its result.
AfterExtraction(tasks) == "done"

\* extraction_errors, in the order the results are processed
ExtractionErrors(tasks) ==
    (IF tasks["income"].state = "raised" THEN <<"Income statement">> ELSE <<>>)
    \o (IF tasks["balance"].state = "raised" THEN <<"Balance sheet">> ELSE <<>>)

\* A step of spread_pdf_combined that calls a model, with the thread it
\* runs on: "loop" for the event-loop thread, "worker" for a thread of
\* asyncio.to_thread.
ModelCall(call, thread) == [call |-> call, thread |-> thread]

\* detection = _detect_statement_types(...): a plain call in the coroutine.
DetectionThread == "loop"

\* Both types detected: asyncio.to_thread(spread_pdf_multi_period, ...);
\* one type detected: spread_pdf_multi_period(...) called in the coroutine.
ExtractionThread(detection) ==
    IF detection.has_income_statement /\ detection.has_balance_sheet
    THEN "worker" ELSE "loop"

IdleCombined ==
    /\ cb_pc = "idle"
    /\ cb_credential = TRUE
    /\ cb_converted = FALSE
    /\ cb_invoke_failed = FALSE
    /\ cb_detection = None
    /\ cb_tasks = [t \in StatementTypes |-> TaskIdle]
    /\ cb_results = [t \in StatementTypes |-> None]
    /\ cb_errors = <<>>
    /\ cb_calls = <<>>
    /\ cb_threads = <<>>
    /\ cb_returned = None

StartCombined ==
    /\ cb_pc = "convert"
    /\ cb_credential \in BOOLEAN
    /\ cb_converted = FALSE
    /\ cb_invoke_failed = FALSE
    /\ cb_detection = None
    /\ cb_tasks = [t \in StatementTypes |-> TaskIdle]
    /\ cb_results = [t \in StatementTypes |-> None]
    /\ cb_errors = <<>>
    /\ cb_calls = <<>>
    /\ cb_threads = <<>>
    /\ cb_returned = None

\* STEP 1: base64_images = _convert_pdf_to_images(...), which may raise.
CbConvert ==
    /\ cb_pc = "convert"
    /\ \/ cb_converted' = TRUE /\ cb_pc' = "detect"
       \/ cb_converted' = FALSE /\ cb_pc' = "raised"
    /\ UNCHANGED <<cb_credential, cb_invoke_failed, cb_detection, cb_tasks,
                   cb_results, cb_errors, cb_calls, cb_threads, cb_returned>>
    /\ UNCHANGED <<rcVars, spVars, mpVars, dtVars, btVars, ptVars, rtVars>>

\* STEPS 2-3: detection = _detect_statement_types(...): create_llm, outside
\* the try, raises without the API key; the model call is inside the try
\* and any exception of it yields the empty detection.
CbDetect ==
    /\ cb_pc = "detect"
    /\ IF ~cb_credential
       THEN /\ cb_pc' = "raised"
            /\ UNCHANGED <<cb_invoke_failed, cb_detection, cb_threads>>
       ELSE /\ cb_pc' = "detected"
            /\ cb_threads' = Append(cb_threads, ModelCall("detection", DetectionThread))
            /\ \/ /\ cb_invoke_failed' = FALSE
                  /\ \E out \in DetectionOutputs : cb_detection' = Some(out)
               \/ /\ cb_invoke_failed' = TRUE
                  /\ cb_detection' = Some(DetectionOnFailure)
    /\ UNCHANGED <<cb_credential, cb_converted, cb_tasks, cb_results, cb_errors,
                   cb_calls, cb_returned>>
    /\ UNCHANGED <<rcVars, spVars, mpVars, dtVars, btVars, ptVars, rtVars>>

\* The no-statements return, else STEP 4 up to the calls of
\* spread_pdf_multi_period: one per detected type (income first).
CbStartExtraction ==
    /\ cb_pc = "detected"
    /\ LET detection == Val(cb_detection)
       IN  IF NoStatements(detection)
           THEN /\ cb_returned' = Some(CombinedExtraction(None, None, detection,
                                         "No financial statements detected", <<>>))
                /\ cb_pc' = "done"
                /\ UNCHANGED <<cb_tasks, cb_calls, cb_threads>>
           ELSE /\ cb_tasks' = [t \in StatementTypes |->
                                  IF Detected(detection, t) THEN TaskRunning
                                  ELSE TaskIdle]
                /\ cb_calls' =
                     (IF detection.has_income_statement THEN <<"income">> ELSE <<>>)
                     \o (IF detection.has_balance_sheet THEN <<"balance">> ELSE <<>>)
                /\ cb_threads' = cb_threads \o
                     [i \in 1..Len(cb_calls') |->
                        ModelCall(cb_calls'[i], ExtractionThread(detection))]
                /\ cb_pc' = "extract"
                /\ UNCHANGED cb_returned
    /\ UNCHANGED <<cb_credential, cb_converted, cb_invoke_failed, cb_detection,
                   cb_results, cb_errors>>
    /\ UNCHANGED <<rcVars, spVars, mpVars, dtVars, btVars, ptVars, rtVars>>

\* A spread_pdf_multi_period call returns or raises; with both types
\* detected the two calls run in threads and end in either order.
CbExtractionEnds(t) ==
    /\ cb_pc = "extract"
    /\ cb_tasks[t].state = "running"
    /\ \/ \E r \in MultiPeriodResults(t) :
            cb_tasks' = [cb_tasks EXCEPT ![t] = [state |-> "ok", value |-> Some(r)]]
       \/ cb_tasks' = [cb_tasks EXCEPT ![t] = [state |-> "raised", value |-> None]]
    /\ UNCHANGED <<cb_pc, cb_credential, cb_converted, cb_invoke_failed,
                   cb_detection, cb_results, cb_errors, cb_calls, cb_threads,
                   cb_returned>>
    /\ UNCHANGED <<rcVars, spVars, mpVars, dtVars, btVars, ptVars, rtVars>>

\* The results are processed (an exception becomes an extraction_errors
\* entry, a result is kept) and STEP 5 builds and returns the combined result.
CbBuildResult ==
    /\ cb_pc = "extract"
    /\ \A t \in StatementTypes : cb_tasks[t].state # "running"
    /\ cb_results' = [t \in StatementTypes |-> cb_tasks[t].value]
    /\ cb_errors' = ExtractionErrors(cb_tasks)
    /\ cb_pc' = AfterExtraction(cb_tasks)
    /\ cb_returned' =
         IF AfterExtraction(cb_tasks) = "done"
         THEN Some(CombinedExtraction(cb_tasks["income"].value,
                                      cb_tasks["balance"].value, Val(cb_detection),
                                      "", ExtractionErrors(cb_tasks)))
         ELSE None
    /\ UNCHANGED <<cb_credential, cb_converted, cb_invoke_failed, cb_detection,
                   cb_tasks, cb_calls, cb_threads>>
    /\ UNCHANGED <<rcVars, spVars, mpVars, dtVars, btVars, ptVars, rtVars>>

NextCombined ==
    \/ CbConvert \/ CbDetect \/ CbStartExtraction
    \/ \E t \in StatementTypes : CbExtractionEnds(t)
    \/ CbBuildResult

-----------------------------------------------------------------------------
(* spreader.py: _detect_fiscal_period                                        *)

\* Largest page count of a document explored.
MaxPages == 4

\* first_pass.confidence >= 0.70, in percent
ConfidenceThreshold == 70

\* FiscalPeriodDetection
PeriodDetection(best_period, confidence) ==
    [best_period |-> best_period, confidence |-> confidence]

\* What a detection model returns for FiscalPeriodDetection.
PeriodDetectionOutputs ==
    {PeriodDetection(b, c) : b \in DetectedPeriods \cup {" "}, c \in {0, 50, 70, 90}}

\* (first_pass.best_period or "").strip()
BestOf(detection) == Strip(detection.best_period)

\* initial_pages = min(2, len(base64_images))
InitialPages(pages) == IF pages < 2 THEN pages ELSE 2

\* base64_images[:min(3, len(base64_images))]
SecondPages(pages) == IF pages < 3 THEN pages ELSE 3

\* if best and first_pass.confidence >= 0.70: return best, first_pass
FirstPassAccepted(first) ==
    BestOf(first) # "" /\ first.confidence >= ConfidenceThreshold

\* Mutant of SecondPassAccepted: any labelled second pass is accepted.
SecondPassAcceptedAnyConfidence(first, second) == BestOf(second) # ""

\* if best2 and second_pass.confidence >= (first_pass.confidence or 0.0)
SecondPassAccepted(first, second) ==
    BestOf(second) # "" /\ second.confidence >= first.confidence

\* The (period, info) pair returned; source tells which object info is:
\* "none" for None, "first" for first_pass, "second" for second_pass.
Returned(period, info, source) == [period |-> period, info |-> info, source |-> source]

\* Fallback: if best: return best, first_pass; return requested_period, first_pass
Fallback(requested, first) ==
    IF BestOf(first) # "" THEN Returned(BestOf(first), Some(first), "first")
    ELSE Returned(requested, Some(first), "first")

IdleDetect ==
    /\ dt_pc = "idle"
    /\ dt_requested = "Latest"
    /\ dt_pages = 0
    /\ dt_calls = <<>>
    /\ dt_first = None
    /\ dt_second = None
    /\ dt_returned = None

StartDetect ==
    /\ dt_pc = "start"
    /\ dt_requested \in RequestedPeriods
    /\ dt_pages \in 0..MaxPages
    /\ dt_calls = <<>>
    /\ dt_first = None
    /\ dt_second = None
    /\ dt_returned = None

\* The two early returns: an explicit period, or no page images.
DtEnter ==
    /\ dt_pc = "start"
    /\ IF ~should_autodetect_period(dt_requested) \/ dt_pages = 0
       THEN /\ dt_returned' = Some(Returned(dt_requested, None, "none"))
            /\ dt_pc' = "done"
       ELSE /\ dt_pc' = "first_pass"
            /\ UNCHANGED dt_returned
    /\ UNCHANGED <<dt_requested, dt_pages, dt_calls, dt_first, dt_second>>
    /\ UNCHANGED <<rcVars, spVars, mpVars, cbVars, btVars, ptVars, rtVars>>

\* first_pass = _invoke_detection(base64_images[:initial_pages]), which may
\* raise, and everything up to the second call or the return.
DtFirstPass ==
    /\ dt_pc = "first_pass"
    /\ dt_calls' = Append(dt_calls, InitialPages(dt_pages))
    /\ \/ /\ dt_pc' = "raised"
          /\ UNCHANGED <<dt_first, dt_returned>>
       \/ \E first \in PeriodDetectionOutputs :
            /\ dt_first' = Some(first)
            /\ IF FirstPassAccepted(first)
               THEN /\ dt_returned' = Some(Returned(BestOf(first), Some(first), "first"))
                    /\ dt_pc' = "done"
               ELSE IF dt_pages > InitialPages(dt_pages)
               THEN /\ dt_pc' = "second_pass"
                    /\ UNCHANGED dt_returned
               ELSE /\ dt_returned' = Some(Fallback(dt_requested, first))
                    /\ dt_pc' = "done"
    /\ UNCHANGED <<dt_requested, dt_pages, dt_second>>
    /\ UNCHANGED <<rcVars, spVars, mpVars, cbVars, btVars, ptVars, rtVars>>

\* second_pass = _invoke_detection(base64_images[:min(3, len)]), which may
\* raise, its acceptance test and the fallback.
DtSecondPass ==
    /\ dt_pc = "second_pass"
    /\ dt_calls' = Append(dt_calls, SecondPages(dt_pages))
    /\ \/ /\ dt_pc' = "raised"
          /\ UNCHANGED <<dt_second, dt_returned>>
       \/ \E second \in PeriodDetectionOutputs :
            /\ dt_second' = Some(second)
            /\ dt_pc' = "done"
            /\ dt_returned' =
                 IF SecondPassAccepted(Val(dt_first), second)
                 THEN Some(Returned(BestOf(second), Some(second), "second"))
                 ELSE Some(Fallback(dt_requested, Val(dt_first)))
    /\ UNCHANGED <<dt_requested, dt_pages, dt_first>>
    /\ UNCHANGED <<rcVars, spVars, mpVars, cbVars, btVars, ptVars, rtVars>>

NextDetect == DtEnter \/ DtFirstPass \/ DtSecondPass

-----------------------------------------------------------------------------
(* backend/api.py: spread_batch and _process_single_file;                    *)
(* spreader.py: spread_multiple_files                                        *)

\* Largest number of files in a batch explored.
MaxFiles == 3

\* Largest max_concurrent explored.
MaxConcurrent == 2

\* An uploaded file with its entry of doc_types.
BatchFile(filename, doc_type) == [filename |-> filename, doc_type |-> doc_type]

BatchFiles ==
    {BatchFile("a.pdf", "income"), BatchFile("notes.txt", "auto"),
     BatchFile("b.pdf", "cashflow")}

\* filename.endswith('.pdf')
EndsWithPdf(filename) ==
    Len(filename) >= 4 /\ SubSeq(filename, Len(filename) - 3, Len(filename)) = ".pdf"

\* doc_type not in ['income', 'balance', 'auto']
ValidDocType(doc_type) == doc_type \in {"income", "balance", "auto"}

\* BatchFileResult; job_id is the index of the file in the batch (the
\* suffix of f"{batch_id}_{idx}", counted from 1), data the extraction of
\* that file.
BatchFileResult(filename, success, data, job_id) ==
    [filename |-> filename, success |-> success, data |-> data, job_id |-> job_id]

\* The payload of a progress message.
ProgressEvent(current, total, filename, status) ==
    [current |-> current, total |-> total, filename |-> filename, status |-> status]

\* Mutant of CanAcquire: the gate lets every task in.
CanAcquireAlways(permits) == TRUE

\* async with semaphore: a task enters while the value is positive.
CanAcquire(permits) == permits > 0

\* Mutant of AfterFile: a failed file ends the batch with its exception.
AfterFileAbortOnFailure(success) == IF success THEN "running" ELSE "raised"

\* except Exception as e: batch_result = BatchFileResult(success=False, ...):
\* the batch goes on whatever the outcome of a file.
AfterFile(success) == "running"

\* Mutant of GatherOrder: results in the order the tasks ended.
GatherOrderByCompletion(n, finished) == finished

\* asyncio.gather returns the results in the order of the tasks given.
GatherOrder(n, finished) == [i \in 1..n |-> i]

HasReturned(state) == state \in {"skipped", "succeeded", "failed"}

IdleBatch ==
    /\ bt_pc = "idle"
    /\ bt_request_ok = TRUE
    /\ bt_parallel = TRUE
    /\ bt_max_concurrent = 1
    /\ bt_files = <<>>
    /\ bt_permits = 0
    /\ bt_task = <<>>
    /\ bt_result = <<>>
    /\ bt_completed = 0
    /\ bt_events = <<>>
    /\ bt_finished = <<>>
    /\ bt_next = 1
    /\ bt_results = <<>>
    /\ bt_flag = FALSE
    /\ bt_used = <<>>
    /\ bt_reported = <<>>
    /\ mf_pc = "idle"
    /\ mf_count = 0
    /\ mf_outcomes = <<>>
    /\ mf_results = <<>>

\* A request to POST /api/spread/batch, or a call of spread_multiple_files.
StartBatch ==
    /\ bt_permits = 0
    /\ bt_task = <<>>
    /\ bt_result = <<>>
    /\ bt_completed = 0
    /\ bt_events = <<>>
    /\ bt_finished = <<>>
    /\ bt_next = 1
    /\ bt_results = <<>>
    /\ bt_flag = FALSE
    /\ bt_used = <<>>
    /\ bt_reported = <<>>
    /\ mf_outcomes = <<>>
    /\ mf_results = <<>>
    /\ \/ /\ bt_pc = "request"
          /\ bt_request_ok \in BOOLEAN
          /\ bt_parallel \in BOOLEAN
          /\ bt_max_concurrent \in 0..MaxConcurrent
          /\ bt_files \in SeqsUpTo(BatchFiles, MaxFiles)
          /\ mf_pc = "idle"
          /\ mf_count = 0
       \/ /\ bt_pc = "idle"
          /\ bt_request_ok = TRUE
          /\ bt_parallel = TRUE
          /\ bt_max_concurrent = 1
          /\ bt_files = <<>>
          /\ mf_pc = "loop"
          /\ mf_count \in 0..MaxFiles

\* spread_batch up to the creation of the tasks: the three HTTP 400 checks,
\* then the semaphore (max_concurrent permits, or 1 in sequential mode).
BtRequest ==
    /\ bt_pc = "request"
    /\ IF ~bt_request_ok \/ \E i \in 1..Len(bt_files) : ~ValidDocType(bt_files[i].doc_type)
       THEN /\ bt_pc' = "rejected"
            /\ UNCHANGED <<bt_permits, bt_task, bt_result, bt_used, bt_reported>>
       ELSE /\ bt_pc' = "running"
            /\ bt_permits' = IF bt_parallel THEN bt_max_concurrent ELSE 1
            /\ bt_task' = [i \in 1..Len(bt_files) |-> "new"]
            /\ bt_result' = [i \in 1..Len(bt_files) |-> None]
            /\ bt_used' = [i \in 1..Len(bt_files) |-> FALSE]
            /\ bt_reported' = [i \in 1..Len(bt_files) |-> None]
    /\ UNCHANGED <<bt_request_ok, bt_parallel, bt_max_concurrent, bt_files,
                   bt_completed, bt_events, bt_finished, bt_next, bt_results,
                   bt_flag, mf_pc, mf_count, mf_outcomes, mf_results>>
    /\ UNCHANGED <<rcVars, spVars, mpVars, cbVars, dtVars, ptVars, rtVars>>

\* _process_single_file enters the semaphore; in sequential mode the call
\* for a file is made when the loop reaches it.
BtAcquire(i) ==
    /\ bt_pc = "running"
    /\ bt_task[i] = "new"
    /\ bt_parallel \/ i = bt_next
    /\ CanAcquire(bt_permits)
    /\ bt_permits' = bt_permits - 1
    /\ bt_task' = [bt_task EXCEPT ![i] = "inside"]
    /\ UNCHANGED <<bt_pc, bt_request_ok, bt_parallel, bt_max_concurrent, bt_files,
                   bt_result, bt_completed, bt_events, bt_finished, bt_next,
                   bt_results, bt_flag, bt_used, bt_reported,
                   mf_pc, mf_count, mf_outcomes, mf_results>>
    /\ UNCHANGED <<rcVars, spVars, mpVars, cbVars, dtVars, ptVars, rtVars>>

\* What the caller does with a returned BatchFileResult in sequential mode:
\* results.append(result) and the next turn of the loop.
BtReturn(i, result) ==
    /\ bt_result' = [bt_result EXCEPT ![i] = Some(result)]
    /\ bt_finished' = Append(bt_finished, i)
    /\ bt_permits' = bt_permits + 1
    /\ IF bt_parallel
       THEN UNCHANGED <<bt_next, bt_results>>
       ELSE bt_next' = bt_next + 1 /\ bt_results' = Append(bt_results, result)

\* Inside the semaphore: a file that is not a PDF is returned as failed
\* at once; otherwise the file is saved and the extraction awaited.  (The
\* doc_type test cannot fail here: spread_batch has validated every type.)
BtValidate(i) ==
    /\ bt_pc = "running"
    /\ bt_task[i] = "inside"
    /\ IF ~EndsWithPdf(bt_files[i].filename) \/ ~ValidDocType(bt_files[i].doc_type)
       THEN /\ bt_task' = [bt_task EXCEPT ![i] = "skipped"]
            /\ BtReturn(i, BatchFileResult(bt_files[i].filename, FALSE, None, i))
            /\ UNCHANGED bt_flag
       ELSE /\ bt_task' = [bt_task EXCEPT ![i] = "extracting"]
            /\ bt_flag' = FALSE         \* reset_fallback_flag()
            /\ UNCHANGED <<bt_result, bt_finished, bt_permits, bt_next, bt_results>>
    /\ UNCHANGED <<bt_pc, bt_request_ok, bt_parallel, bt_max_concurrent, bt_files,
                   bt_completed, bt_events, bt_used, bt_reported,
                   mf_pc, mf_count, mf_outcomes, mf_results>>
    /\ UNCHANGED <<rcVars, spVars, mpVars, cbVars, dtVars, ptVars, rtVars>>

\* The extraction of a file loads its prompt (load_from_hub, called by
\* spread_pdf and spread_pdf_multi_period): when the Hub prompt cannot be
\* used the fallback prompt is taken and the global flag set.
BtLoadPrompt(i) ==
    /\ bt_pc = "running"
    /\ bt_task[i] = "extracting"
    /\ bt_task' = [bt_task EXCEPT ![i] = "prompted"]
    /\ \E fallback \in BOOLEAN :
         /\ bt_used' = [bt_used EXCEPT ![i] = fallback]
         /\ bt_flag' = IF fallback THEN TRUE ELSE bt_flag
    /\ UNCHANGED <<bt_pc, bt_request_ok, bt_parallel, bt_max_concurrent, bt_files,
                   bt_permits, bt_result, bt_completed, bt_events, bt_finished,
                   bt_next, bt_results, bt_reported,
                   mf_pc, mf_count, mf_outcomes, mf_results>>
    /\ UNCHANGED <<rcVars, spVars, mpVars, cbVars, dtVars, ptVars, rtVars>>

\* The extraction returns or raises (the except clause makes a failed
\* result of any exception); on success was_fallback_used() is read into
\* the metadata; the progress counter is incremented, the progress message
\* broadcast and the result returned.
BtFinish(i) ==
    /\ bt_pc = "running"
    /\ bt_task[i] \in {"extracting", "prompted"}
    /\ \E success \in BOOLEAN :
         /\ success => bt_task[i] = "prompted"
         /\ bt_reported' = IF success THEN [bt_reported EXCEPT ![i] = Some(bt_flag)]
                           ELSE bt_reported
         /\ bt_task' = [bt_task EXCEPT ![i] = IF success THEN "succeeded" ELSE "failed"]
         /\ bt_pc' = AfterFile(success)
         /\ bt_completed' = bt_completed + 1
         /\ bt_events' = Append(bt_events,
                                ProgressEvent(bt_completed + 1, Len(bt_files),
                                              bt_files[i].filename,
                                              IF success THEN "success" ELSE "error"))
         /\ BtReturn(i, BatchFileResult(bt_files[i].filename, success,
                                        IF success THEN Some(i) ELSE None, i))
    /\ UNCHANGED <<bt_request_ok, bt_parallel, bt_max_concurrent, bt_files,
                   bt_flag, bt_used, mf_pc, mf_count, mf_outcomes, mf_results>>
    /\ UNCHANGED <<rcVars, spVars, mpVars, cbVars, dtVars, ptVars, rtVars>>

\* Every call has returned: in parallel mode gather hands the results
\* over in task order; the BatchSpreadResponse is returned.
BtRespond ==
    /\ bt_pc = "running"
    /\ \A i \in 1..Len(bt_files) : HasReturned(bt_task[i])
    /\ bt_results' =
         IF bt_parallel
         THEN [k \in 1..Len(bt_files) |->
                 Val(bt_result[GatherOrder(Len(bt_files), bt_finished)[k]])]
         ELSE bt_results
    /\ bt_pc' = "done"
    /\ UNCHANGED <<bt_request_ok, bt_parallel, bt_max_concurrent, bt_files,
                   bt_permits, bt_task, bt_result, bt_completed, bt_events,
                   bt_finished, bt_next, bt_flag, bt_used, bt_reported,
                   mf_pc, mf_count, mf_outcomes, mf_results>>
    /\ UNCHANGED <<rcVars, spVars, mpVars, cbVars, dtVars, ptVars, rtVars>>

\* An entry of the list spread_multiple_files returns; path is the index of
\* the file, result the extraction of that file.
PathResult(path, status, result) == [path |-> path, status |-> status, result |-> result]

\* One turn of the loop of spread_multiple_files: spread_financials
\* returns or raises, and either way an entry is appended.
MfProcess ==
    /\ mf_pc = "loop"
    /\ Len(mf_results) < mf_count
    /\ \E success \in BOOLEAN :
         /\ mf_outcomes' = Append(mf_outcomes, success)
         /\ mf_results' = Append(mf_results,
              IF success
              THEN PathResult(Len(mf_results) + 1, "success", Some(Len(mf_results) + 1))
              ELSE PathResult(Len(mf_results) + 1, "error", None))
         /\ mf_pc' = IF AfterFile(success) = "running" THEN "loop" ELSE "raised"
    /\ UNCHANGED <<bt_pc, bt_request_ok, bt_parallel, bt_max_concurrent, bt_files,
                   bt_permits, bt_task, bt_result, bt_completed, bt_events,
                   bt_finished, bt_next, bt_results, bt_flag, bt_used, bt_reported,
                   mf_count>>
    /\ UNCHANGED <<rcVars, spVars, mpVars, cbVars, dtVars, ptVars, rtVars>>

\* return results
MfReturn ==
    /\ mf_pc = "loop"
    /\ Len(mf_results) = mf_count
    /\ mf_pc' = "done"
    /\ UNCHANGED <<bt_pc, bt_request_ok, bt_parallel, bt_max_concurrent, bt_files,
                   bt_permits, bt_task, bt_result, bt_completed, bt_events,
                   bt_finished, bt_next, bt_results, bt_flag, bt_used, bt_reported,
                   mf_count, mf_outcomes, mf_results>>
    /\ UNCHANGED <<rcVars, spVars, mpVars, cbVars, dtVars, ptVars, rtVars>>

NextBatch ==
    \/ BtRequest
    \/ \E i \in 1..Len(bt_task) :
          BtAcquire(i) \/ BtValidate(i) \/ BtLoadPrompt(i) \/ BtFinish(i)
    \/ BtRespond
    \/ MfProcess \/ MfReturn

-----------------------------------------------------------------------------
(* spreader.py: apply_computed_totals_parallel                              *)

\* Bound on len(extracted_periods) handed to the pass.
MaxTotalsPeriods == 3

\* if len(extracted_periods) < 3: sequential processing
ParallelThreshold == 3

\* max_workers: int = 4
MaxWorkers == 4

PoolSize(n) == IF n < MaxWorkers THEN n ELSE MaxWorkers

TotalsLabels == <<"Q124", "Q224", "Q324", "Q424", "FY24">>

\* Income statements of the periods: totals missing, a total that disagrees
\* with its components, and a statement where only operating income is missing.
TotalsData ==
    PeriodData("income")
    \cup {Income(Extracted(1000), Extracted(400), Extracted(600), Extracted(200),
                 NotFound, NotFound, NotFound, NotFound)}

TotalsInputs ==
    UNION {{[i \in 1..n |-> [period_label |-> TotalsLabels[i], data |-> d[i]]] :
              d \in [1..n -> TotalsData]} : n \in 0..MaxTotalsPeriods}

\* First half of apply_computed_totals: gross_profit is filled in place.
GrossProfitStep(data) ==
    IF FillGrossProfit(data)
    THEN [data EXCEPT !.gross_profit =
            ComputedItem(GetValueOrZero(data.revenue) - GetValueOrZero(data.cogs))]
    ELSE data

\* Second half of apply_computed_totals: operating_income is filled in place
\* from the gross profit the first half left on the object.
OperatingIncomeStep(data) ==
    LET gross_profit == GetValueOrZero(data.gross_profit)
        total_opex == GetValueOrZero(data.total_operating_expenses)
        operating_income == GetValueOrZero(data.operating_income)
    IN  IF /\ gross_profit # 0
           /\ total_opex # 0
           /\ (operating_income = 0 \/ IsNone(data.operating_income.value))
        THEN [data EXCEPT !.operating_income = ComputedItem(gross_profit - total_opex)]
        ELSE data

\* Mutant of WorkerPeriod: every task is handed the first period.
WorkerPeriodFirst(idx) == 1

\* executor.submit(_process_period_computed_totals, idx, period_data, tolerance)
\* for idx, period_data in enumerate(extracted_periods): task idx works on the
\* period at idx and returns idx as period_idx.
WorkerPeriod(idx) == idx

\* task is the index of the pool task, 0 for the calling thread.
Access(thread, task, period) == [thread |-> thread, task |-> task, period |-> period]

Busy(worker) == Cardinality({i \in DOMAIN worker : worker[i] \in {"running", "gross_profit"}})

IdleTotals ==
    /\ pt_pc = "idle"
    /\ pt_tol = 1
    /\ pt_input = <<>>
    /\ pt_periods = <<>>
    /\ pt_worker = <<>>
    /\ pt_access = {}

StartTotals ==
    /\ pt_pc = "call"
    /\ pt_tol = 1
    /\ pt_input \in TotalsInputs
    /\ pt_periods = pt_input
    /\ pt_worker = <<>>
    /\ pt_access = {}

\* Entry of apply_computed_totals_parallel: fewer than 3 periods are processed
\* by the caller's thread in a loop; otherwise one task per period is submitted
\* to a ThreadPoolExecutor.
PtCall ==
    /\ pt_pc = "call"
    /\ IF Len(pt_periods) < ParallelThreshold
       THEN /\ pt_periods' = [i \in 1..Len(pt_periods) |->
                                [pt_periods[i] EXCEPT !.data =
                                    apply_computed_totals(pt_periods[i].data, pt_tol).data]]
            /\ pt_access' = {Access("main", 0, i) : i \in 1..Len(pt_periods)}
            /\ pt_pc' = "returned"
            /\ UNCHANGED pt_worker
       ELSE /\ pt_worker' = [i \in 1..Len(pt_periods) |-> "submitted"]
            /\ pt_pc' = "pool"
            /\ UNCHANGED <<pt_periods, pt_access>>
    /\ UNCHANGED <<pt_tol, pt_input>>
    /\ UNCHANGED <<rcVars, spVars, mpVars, cbVars, dtVars, btVars, rtVars>>

\* A pool thread picks up task i.
PtStart(i) ==
    /\ pt_pc = "pool"
    /\ pt_worker[i] = "submitted"
    /\ Busy(pt_worker) < PoolSize(Len(pt_periods))
    /\ pt_worker' = [pt_worker EXCEPT ![i] = "running"]
    /\ UNCHANGED <<pt_pc, pt_tol, pt_input, pt_periods, pt_access>>
    /\ UNCHANGED <<rcVars, spVars, mpVars, cbVars, dtVars, btVars, rtVars>>

\* Task i runs apply_computed_totals(period_data.data) up to the gross-profit
\* assignment.
PtGrossProfit(i) ==
    /\ pt_pc = "pool"
    /\ pt_worker[i] = "running"
    /\ pt_periods' = [pt_periods EXCEPT ![WorkerPeriod(i)].data =
                         GrossProfitStep(pt_periods[WorkerPeriod(i)].data)]
    /\ pt_access' = pt_access \cup {Access("worker", i, WorkerPeriod(i))}
    /\ pt_worker' = [pt_worker EXCEPT ![i] = "gross_profit"]
    /\ UNCHANGED <<pt_pc, pt_tol, pt_input>>
    /\ UNCHANGED <<rcVars, spVars, mpVars, cbVars, dtVars, btVars, rtVars>>

\* Task i runs the rest of apply_computed_totals and returns.
PtOperatingIncome(i) ==
    /\ pt_pc = "pool"
    /\ pt_worker[i] = "gross_profit"
    /\ pt_periods' = [pt_periods EXCEPT ![WorkerPeriod(i)].data =
                         OperatingIncomeStep(pt_periods[WorkerPeriod(i)].data)]
    /\ pt_access' = pt_access \cup {Access("worker", i, WorkerPeriod(i))}
    /\ pt_worker' = [pt_worker EXCEPT ![i] = "finished"]
    /\ UNCHANGED <<pt_pc, pt_tol, pt_input>>
    /\ UNCHANGED <<rcVars, spVars, mpVars, cbVars, dtVars, btVars, rtVars>>

\* for future in as_completed(futures):
\*     extracted_periods[period_idx].data = modified_data
\* where modified_data is the object the task worked on.
PtCollect(i) ==
    /\ pt_pc = "pool"
    /\ pt_worker[i] = "finished"
    /\ pt_periods' = [pt_periods EXCEPT ![i].data = pt_periods[WorkerPeriod(i)].data]
    /\ pt_access' = pt_access \cup {Access("main", 0, i)}
    /\ pt_worker' = [pt_worker EXCEPT ![i] = "collected"]
    /\ UNCHANGED <<pt_pc, pt_tol, pt_input>>
    /\ UNCHANGED <<rcVars, spVars, mpVars, cbVars, dtVars, btVars, rtVars>>

\* The with-block ends when every future has been collected.
PtReturn ==
    /\ pt_pc = "pool"
    /\ \A i \in 1..Len(pt_worker) : pt_worker[i] = "collected"
    /\ pt_pc' = "returned"
    /\ UNCHANGED <<pt_tol, pt_input, pt_periods, pt_worker, pt_access>>
    /\ UNCHANGED <<rcVars, spVars, mpVars, cbVars, dtVars, btVars, rtVars>>

NextTotals ==
    \/ PtCall
    \/ \E i \in 1..Len(pt_worker) :
          PtStart(i) \/ PtGrossProfit(i) \/ PtOperatingIncome(i) \/ PtCollect(i)
    \/ PtReturn

-----------------------------------------------------------------------------
(* backend/testing/test_runner.py: run_test                                 *)

\* Bound on len(company.files).
MaxTestFiles == 3

\* What a _process_test_file call does: returns a graded result, returns a
\* result carrying an error (its own except Exception), or raises.
FileOutcomes == {"graded", "error", "raised"}

\* status=TestRunStatus.COMPLETE if not errors else TestRunStatus.ERROR
\* errors holds the error of every result that has one and, in parallel mode,
\* every exception gather handed back.
FinalStatus(outcomes) ==
    IF \A i \in 1..Len(outcomes) : outcomes[i] = "graded" THEN "COMPLETE" ELSE "ERROR"

IdleRunTest ==
    /\ rt_pc = "idle"
    /\ rt_company_known = FALSE
    /\ rt_parallel = FALSE
    /\ rt_files = 0
    /\ rt_outcomes = <<>>
    /\ rt_db = None
    /\ rt_running_saved = FALSE
    /\ rt_end = "none"

StartRunTest ==
    /\ rt_pc = "start"
    /\ rt_company_known \in BOOLEAN
    /\ rt_parallel \in BOOLEAN
    /\ rt_files \in 1..MaxTestFiles
    /\ rt_outcomes = <<>>
    /\ rt_db = None
    /\ rt_running_saved = FALSE
    /\ rt_end = "none"

\* Unknown company: ValueError before anything is stored. Otherwise the
\* initial record is saved with status RUNNING inside try/except Exception:
\* a failed save is logged and the run goes on.
RtSaveInitial ==
    /\ rt_pc = "start"
    /\ IF ~rt_company_known
       THEN /\ rt_pc' = "ended"
            /\ rt_end' = "raised"
            /\ UNCHANGED <<rt_db, rt_running_saved>>
       ELSE /\ rt_pc' = "files"
            /\ UNCHANGED rt_end
            /\ \/ /\ rt_db' = Some("RUNNING")
                  /\ rt_running_saved' = TRUE
               \/ UNCHANGED <<rt_db, rt_running_saved>>
    /\ UNCHANGED <<rt_company_known, rt_parallel, rt_files, rt_outcomes>>
    /\ UNCHANGED <<rcVars, spVars, mpVars, cbVars, dtVars, btVars, ptVars>>

\* One _process_test_file call. In parallel mode gather(return_exceptions=True)
\* hands an exception back as a result; in sequential mode the await is not
\* inside any try, so the exception leaves run_test.
RtProcessFile ==
    /\ rt_pc = "files"
    /\ Len(rt_outcomes) < rt_files
    /\ \E outcome \in FileOutcomes :
         IF outcome = "raised" /\ ~rt_parallel
         THEN /\ rt_pc' = "ended"
              /\ rt_end' = "raised"
              /\ UNCHANGED rt_outcomes
         ELSE /\ rt_outcomes' = Append(rt_outcomes, outcome)
              /\ UNCHANGED <<rt_pc, rt_end>>
    /\ UNCHANGED <<rt_company_known, rt_parallel, rt_files, rt_db, rt_running_saved>>
    /\ UNCHANGED <<rcVars, spVars, mpVars, cbVars, dtVars, btVars, ptVars>>

\* The final TestRunResult is built and saved inside try/except Exception
\* (a failed save is logged only), then run_test returns the result.
RtSaveFinal ==
    /\ rt_pc = "files"
    /\ Len(rt_outcomes) = rt_files
    /\ \/ rt_db' = Some(FinalStatus(rt_outcomes))
       \/ UNCHANGED rt_db
    /\ rt_pc' = "ended"
    /\ rt_end' = "returned"
    /\ UNCHANGED <<rt_company_known, rt_parallel, rt_files, rt_outcomes,
                   rt_running_saved>>
    /\ UNCHANGED <<rcVars, spVars, mpVars, cbVars, dtVars, btVars, ptVars>>

NextRunTest == RtSaveInitial \/ RtProcessFile \/ RtSaveFinal

InitRecon ==
    StartRecon /\ IdleSingle /\ IdleMulti /\ IdleCombined /\ IdleDetect /\ IdleBatch
    /\ IdleTotals /\ IdleRunTest

SpecRecon == InitRecon /\ [][NextRecon]_vars

InitSingle ==
    StartSingle /\ IdleRecon /\ IdleMulti /\ IdleCombined /\ IdleDetect /\ IdleBatch
    /\ IdleTotals /\ IdleRunTest

SpecSingle == InitSingle /\ [][NextSingle]_vars

InitMulti ==
    StartMulti /\ IdleRecon /\ IdleSingle /\ IdleCombined /\ IdleDetect /\ IdleBatch
    /\ IdleTotals /\ IdleRunTest

SpecMulti == InitMulti /\ [][NextMulti]_vars

InitCombined ==
    StartCombined /\ IdleRecon /\ IdleSingle /\ IdleMulti /\ IdleDetect /\ IdleBatch
    /\ IdleTotals /\ IdleRunTest

SpecCombined == InitCombined /\ [][NextCombined]_vars

InitDetect ==
    StartDetect /\ IdleRecon /\ IdleSingle /\ IdleMulti /\ IdleCombined /\ IdleBatch
    /\ IdleTotals /\ IdleRunTest

SpecDetect == InitDetect /\ [][NextDetect]_vars

InitBatch ==
    StartBatch /\ IdleRecon /\ IdleSingle /\ IdleMulti /\ IdleCombined /\ IdleDetect
    /\ IdleTotals /\ IdleRunTest

SpecBatch == InitBatch /\ [][NextBatch]_vars

\* The event loop runs every task that is ready to run, and every model call
\* returns or fails: a step of the batch that stays possible is taken.
SpecBatchFair == InitBatch /\ [][NextBatch]_vars /\ WF_vars(NextBatch)

InitTotals ==
    StartTotals /\ IdleRecon /\ IdleSingle /\ IdleMulti /\ IdleCombined /\ IdleDetect
    /\ IdleBatch /\ IdleRunTest

SpecTotals == InitTotals /\ [][NextTotals]_vars

InitRunTest ==
    StartRunTest /\ IdleRecon /\ IdleSingle /\ IdleMulti /\ IdleCombined /\ IdleDetect
    /\ IdleBatch /\ IdleTotals

SpecRunTest == InitRunTest /\ [][NextRunTest]_vars

-----------------------------------------------------------------------------
(* Claims about the single-period reasoning loop                            *)

\* C1: in spread_pdf, for max_retries >= 0 and any sequence of model
\* outputs, the extraction model is called at most max_retries + 1 times,
\* every call but the first follows a failed validation, and no call is
\* made after the first attempt whose validation passes.
C1_BoundedCallsStopOnPass ==
    /\ sp_max_retries >= 0 => Len(sp_calls) <= sp_max_retries + 1
    /\ Len(sp_calls) <= Len(sp_validations) + 1
    /\ \A i \in 1..Len(sp_validations) :
          sp_validations[i].is_valid => Len(sp_calls) = i

\* C1 witness: with max_retries = 2 the third call was made after two failed
\* validations, its result passed, and spread_pdf returned.
C1_Witness ==
    /\ sp_pc = "done"
    /\ sp_max_retries = 2
    /\ Len(sp_calls) = 3
    /\ ~sp_validations[1].is_valid /\ ~sp_validations[2].is_valid
    /\ sp_validations[3].is_valid

AllAttemptsFailed ==
    /\ sp_max_retries >= 0
    /\ Len(sp_validations) = sp_max_retries + 1
    /\ \A i \in 1..Len(sp_validations) : ~sp_validations[i].is_valid

\* Every line item of ret is the one of last, or a computed fill of one
\* whose value was null or zero.
KeepsExtractedData(last, ret) ==
    /\ ret.kind = last.kind
    /\ \A f \in LineItemFields(last) :
          \/ ret[f] = last[f]
          \/ /\ GetValueOrZero(last[f]) = 0
             /\ InSeq("COMPUTED", ret[f].raw_fields_used)

\* C2: when every one of the max_retries + 1 attempts fails validation,
\* spread_pdf does not raise and makes no further call: it goes on to
\* post-processing and returns the last attempt's result, with its extracted
\* line items intact.
C2_ExhaustedReturnsLastResult ==
    AllAttemptsFailed =>
        /\ sp_pc \in {"post", "done"}
        /\ Len(sp_calls) = sp_max_retries + 1
        /\ sp_pc = "done" =>
              /\ ~IsNone(sp_returned)
              /\ KeepsExtractedData(sp_results[Len(sp_results)], Val(sp_returned))

\* C2 witness: three attempts, all failing, and spread_pdf returned.
C2_Witness ==
    /\ AllAttemptsFailed
    /\ sp_max_retries = 2
    /\ sp_pc = "done"
    /\ ~IsNone(sp_returned)

\* C3: the first extraction call receives no retry context, and call k > 1
\* receives the result of attempt k-1 together with the validation errors
\* of attempt k-1.
C3_RetryContextIsPreviousAttempt ==
    \A k \in 1..Len(sp_calls) :
        IF k = 1
        THEN ~sp_calls[k].is_retry /\ IsNone(sp_calls[k].previous_errors)
        ELSE /\ sp_calls[k].is_retry
             /\ ~IsNone(sp_calls[k].previous_errors)
             /\ Val(sp_calls[k].previous_errors).errors = sp_validations[k-1].errors
             /\ Val(sp_calls[k].previous_errors).previous_extraction = sp_results[k-1]

\* C3 witness: a third call was made after two attempts that failed with
\* different errors, and it received the second attempt's errors.
C3_Witness ==
    /\ Len(sp_calls) = 3
    /\ sp_validations[1].errors # sp_validations[2].errors
    /\ sp_results[1] # sp_results[2]
    /\ Val(sp_calls[3].previous_errors).errors = sp_validations[2].errors

\* C10: every LineItem of a result returned by the pipeline has
\* confidence 0.0 when its value is null.
C10_NullValueHasZeroConfidence ==
    sp_pc = "done" =>
        \A f \in LineItemFields(Val(sp_returned)) :
            IsNone(Val(sp_returned)[f].value) => Val(sp_returned)[f].confidence = 0

-----------------------------------------------------------------------------
(* Claims about spread_pdf_multi_period (checked on SpecMulti)               *)

Frozen == mp_frozen # NoClassification

\* C4: the column classification is computed exactly once and then frozen:
\* no second classification call is ever made, the classification object
\* keeps the value it had when frozen, and every extraction call is told to
\* extract exactly the frozen period_columns and to ignore exactly the
\* frozen rollup_columns.
C4_ClassifiedOnceFrozenColumnsRequested ==
    /\ mp_classify_calls <= 1
    /\ Frozen => mp_classify_calls = 1 /\ mp_classification = mp_frozen
    /\ mp_extract_calls # <<>> => Frozen
    /\ \A k \in 1..Len(mp_extract_calls) :
          /\ mp_extract_calls[k].extract = mp_frozen.period_columns
          /\ mp_extract_calls[k].ignore = mp_frozen.rollup_columns

C4_Witness ==
    /\ mp_pc = "done"
    /\ Len(mp_extract_calls) = 1
    /\ mp_frozen.period_columns = <<"Jan-2025", "FY24">>
    /\ mp_frozen.rollup_columns = <<"Total">>

\* C5: when the classification comes back with an empty period_columns
\* list, spread_pdf_multi_period raises the no-period-columns ValueError
\* without having made any extraction call, and no extraction call is ever
\* made for an empty list.
C5_EmptyPeriodColumnsRaiseBeforeExtraction ==
    /\ (mp_classify_calls = 1 /\ mp_classification.period_columns = <<>>)
          => /\ mp_extract_calls = <<>>
             /\ mp_returned = None
             /\ mp_pc \in {"check", "raised"}
             /\ mp_pc = "raised" =>
                  mp_error = "ValueError: No period columns detected after classification"
    /\ mp_extract_calls # <<>> => mp_classification.period_columns # <<>>

C5_Witness ==
    /\ mp_pc = "raised"
    /\ mp_error = "ValueError: No period columns detected after classification"
    /\ mp_classification.period_columns = <<>>
    /\ mp_classification.rollup_columns = <<"Total">>
    /\ mp_extract_calls = <<>>

-----------------------------------------------------------------------------
(* Claims about the computed-totals pass and balance-sheet validation       *)

Applied == rc_pc = "applied" /\ IsIncomeStatement(rc_orig)

\* C7 as stated: whenever gross_profit.value is populated (not null) before
\* the computed-totals pass, the pass leaves gross_profit.value unchanged.
C7_PopulatedGrossProfitUnchanged ==
    (Applied /\ ~IsNone(rc_orig.gross_profit.value))
        => rc_data.gross_profit.value = rc_orig.gross_profit.value

\* C7 amended: whenever gross_profit.value is populated with a non-zero
\* amount before the computed-totals pass, the pass leaves the gross_profit
\* line item (value, confidence, provenance) unchanged, however inconsistent
\* it is with revenue - cogs.
C7_NonZeroGrossProfitUnchanged ==
    (Applied /\ ~IsNone(rc_orig.gross_profit.value)
             /\ Val(rc_orig.gross_profit.value) # 0)
        => rc_data.gross_profit = rc_orig.gross_profit

\* C7 witness: an extracted gross profit of 550 against revenue 1000 and
\* cogs 400 went through the pass, the mismatch was logged, 550 is kept.
C7_Witness ==
    /\ Applied
    /\ rc_orig.revenue.value = Some(1000)
    /\ rc_orig.cogs.value = Some(400)
    /\ rc_orig.gross_profit.value = Some(550)
    /\ InSeq("gross_profit mismatch", rc_log)
    /\ rc_data.gross_profit.value = Some(550)

GrossProfitComputed ==
    /\ rc_data.gross_profit.value
         = Some(Val(rc_orig.revenue.value) - Val(rc_orig.cogs.value))
    /\ rc_data.gross_profit.confidence < 90
    /\ InSeq("COMPUTED", rc_data.gross_profit.raw_fields_used)

\* C8 as stated: whenever revenue and cogs are both present (not null) and
\* gross_profit is null, the pass sets gross_profit to revenue - cogs with a
\* confidence below 0.9 and a COMPUTED provenance entry.
C8_PresentInputsComputeGrossProfit ==
    (Applied /\ ~IsNone(rc_orig.revenue.value) /\ ~IsNone(rc_orig.cogs.value)
             /\ IsNone(rc_orig.gross_profit.value))
        => GrossProfitComputed

\* C8 amended: whenever revenue and cogs are both present and non-zero and
\* gross_profit is null, the pass sets gross_profit to revenue - cogs with a
\* confidence below 0.9 and a COMPUTED provenance entry.
C8_NonZeroInputsComputeGrossProfit ==
    (Applied /\ ~IsNone(rc_orig.revenue.value) /\ ~IsNone(rc_orig.cogs.value)
             /\ Val(rc_orig.revenue.value) # 0 /\ Val(rc_orig.cogs.value) # 0
             /\ IsNone(rc_orig.gross_profit.value))
        => GrossProfitComputed

\* C8 witness: revenue 1000, cogs 400, gross_profit null became 600.
C8_Witness ==
    /\ Applied
    /\ rc_orig.revenue.value = Some(1000)
    /\ rc_orig.cogs.value = Some(400)
    /\ IsNone(rc_orig.gross_profit.value)
    /\ rc_data.gross_profit.value = Some(600)
    /\ rc_data.gross_profit.confidence = ComputedConfidence
    /\ rc_data.gross_profit.raw_fields_used = <<"COMPUTED">>

BalanceValidated == rc_pc = "validated" /\ IsBalanceSheet(rc_data)

NonNullNonZero(item) == ~IsNone(item.value) /\ Val(item.value) # 0

EquationErrorReported ==
    \E i \in 1..Len(rc_validation.errors) :
        rc_validation.errors[i].error = "Balance Sheet equation error"

\* |total_assets - (total_liabilities + total_shareholders_equity)|
BalanceDiff ==
    Abs(Val(rc_data.total_assets.value)
        - (Val(rc_data.total_liabilities.value)
           + Val(rc_data.total_shareholders_equity.value)))

\* C9 as stated: with total_liabilities and total_shareholders_equity both
\* non-null and non-zero, validation reports an error whenever
\* |assets - (liabilities + equity)| > max(tolerance * total_assets, 1),
\* for every value of total_assets.
C9_EquationErrorForEveryAssets ==
    (BalanceValidated /\ NonNullNonZero(rc_data.total_liabilities)
        /\ NonNullNonZero(rc_data.total_shareholders_equity)
        /\ ~IsNone(rc_data.total_assets.value)
        /\ BalanceDiff * 100 > rc_tol * Val(rc_data.total_assets.value)
        /\ BalanceDiff > 1)
        => EquationErrorReported

\* C9 amended: with total_liabilities and total_shareholders_equity both
\* non-null and non-zero and total_assets non-null and non-zero, validation
\* reports an error whenever
\* |assets - (liabilities + equity)| > max(tolerance * |total_assets|, 1).
C9_EquationErrorForNonZeroAssets ==
    (BalanceValidated /\ NonNullNonZero(rc_data.total_liabilities)
        /\ NonNullNonZero(rc_data.total_shareholders_equity)
        /\ NonNullNonZero(rc_data.total_assets)
        /\ BalanceDiff * 100 > rc_tol * Abs(Val(rc_data.total_assets.value))
        /\ BalanceDiff > 1)
        => EquationErrorReported

\* C9 witness: assets 1060 against liabilities 600 + equity 400 at 5%
\* tolerance (60 > 53) was validated and the equation error was reported.
C9_Witness ==
    /\ BalanceValidated
    /\ rc_tol = 5
    /\ rc_data.total_assets.value = Some(1060)
    /\ rc_data.total_liabilities.value = Some(600)
    /\ rc_data.total_shareholders_equity.value = Some(400)
    /\ EquationErrorReported

-----------------------------------------------------------------------------
(* Claims about statement-type detection and combined mode                   *)

\* C11: when the detection model call or the parsing of its output fails,
\* _detect_statement_types returns a detection with has_income_statement
\* and has_balance_sheet false and confidence 0, and nothing is raised to
\* spread_pdf_combined.
C11_FailedDetectionIsEmptyNotRaised ==
    cb_invoke_failed =>
        /\ cb_pc # "raised"
        /\ cb_detection # None
        /\ ~Val(cb_detection).has_income_statement
        /\ ~Val(cb_detection).has_balance_sheet
        /\ Val(cb_detection).confidence = 0

\* C11 witness: the model call failed and the detector has returned.
C11_Witness ==
    /\ cb_invoke_failed
    /\ cb_pc = "detected"
    /\ cb_detection = Some(Detection(FALSE, FALSE, 0, "Detection failed"))

NeitherDetected ==
    /\ cb_detection # None
    /\ ~Val(cb_detection).has_income_statement
    /\ ~Val(cb_detection).has_balance_sheet

\* C12: when detection reports neither statement, spread_pdf_combined makes
\* no extraction call, raises nothing, and returns a combined result whose
\* income_statement and balance_sheet are None and whose note is not empty.
C12_NeitherDetectedReturnsEmptyWithNote ==
    NeitherDetected =>
        /\ cb_calls = <<>>
        /\ cb_pc \in {"detected", "done"}
        /\ cb_pc = "done" =>
              /\ Val(cb_returned).income_statement = None
              /\ Val(cb_returned).balance_sheet = None
              /\ Val(cb_returned).note # ""

\* C12 witness: the model answered, with confidence, that the document holds
\* neither statement, and the call has returned.
C12_Witness ==
    /\ cb_pc = "done"
    /\ NeitherDetected
    /\ ~cb_invoke_failed
    /\ Val(cb_detection).confidence = 90
    /\ Val(cb_returned).note = "No financial statements detected"

BothDetected ==
    /\ cb_detection # None
    /\ Val(cb_detection).has_income_statement
    /\ Val(cb_detection).has_balance_sheet

\* C13: with both statement types detected, an extraction that raises does
\* not make spread_pdf_combined raise, and the returned result holds the
\* result of every extraction that succeeded.
C13_FailedTypeKeepsSibling ==
    BothDetected =>
        /\ cb_pc # "raised"
        /\ cb_pc = "done" =>
              /\ cb_tasks["income"].state = "ok" =>
                    /\ Val(cb_returned).income_statement # None
                    /\ Val(cb_returned).income_statement = cb_tasks["income"].value
              /\ cb_tasks["balance"].state = "ok" =>
                    /\ Val(cb_returned).balance_sheet # None
                    /\ Val(cb_returned).balance_sheet = cb_tasks["balance"].value

\* C13 witness: the income extraction raised, the balance extraction
\* succeeded after it, and the result returned holds the balance sheet.
C13_Witness ==
    /\ cb_pc = "done"
    /\ BothDetected
    /\ cb_tasks["income"].state = "raised"
    /\ cb_tasks["balance"].state = "ok"
    /\ Val(cb_returned).income_statement = None
    /\ Val(cb_returned).balance_sheet # None
    /\ Val(cb_returned).extraction_errors = <<"Income statement">>

-----------------------------------------------------------------------------
(* Claims about batch processing                                             *)

\* C14: a file whose processing fails never makes the batch raise, and a
\* batch that returns holds one result per submitted document, a failed
\* result for every document that failed and, for every other document,
\* a successful result with the extraction of that document; the same
\* holds of the list spread_multiple_files returns.
C14_FailedFilesNeverAbortBatch ==
    /\ bt_pc # "raised"
    /\ mf_pc # "raised"
    /\ bt_pc = "done" =>
          /\ Len(bt_results) = Len(bt_files)
          /\ \A i \in 1..Len(bt_files) :
                /\ bt_task[i] \in {"failed", "skipped"} => ~bt_results[i].success
                /\ bt_task[i] = "succeeded" =>
                      bt_results[i].success /\ bt_results[i].data = Some(i)
    /\ mf_pc = "done" =>
          /\ Len(mf_results) = mf_count
          /\ \A i \in 1..mf_count :
                /\ ~mf_outcomes[i] => mf_results[i].status = "error"
                /\ mf_outcomes[i] =>
                      /\ mf_results[i].status = "success"
                      /\ mf_results[i].result = Some(i)

\* C14 witness: of three PDF files the second failed, and the batch returned
\* three results with only the second marked failed.
C14_Witness ==
    /\ bt_pc = "done"
    /\ Len(bt_files) = 3
    /\ bt_task = <<"succeeded", "failed", "succeeded">>
    /\ Len(bt_results) = 3
    /\ ~bt_results[2].success
    /\ bt_results[1].data = Some(1)
    /\ bt_results[3].data = Some(3)

\* C15: in a parallel batch that returned, whatever the order in which the
\* per-file calls ended, the i-th result is the result of the i-th
\* submitted file.
C15_ParallelResultsInSubmissionOrder ==
    (bt_pc = "done" /\ bt_parallel) =>
        /\ Len(bt_results) = Len(bt_files)
        /\ \A i \in 1..Len(bt_files) :
              /\ bt_results[i].job_id = i
              /\ bt_results[i].filename = bt_files[i].filename

\* C15 witness: three files with two permits; the second file ended before
\* the first, and the results are in submission order all the same.
C15_Witness ==
    /\ bt_pc = "done"
    /\ bt_parallel
    /\ bt_max_concurrent = 2
    /\ bt_finished = <<2, 1, 3>>
    /\ bt_results[1].job_id = 1
    /\ bt_results[2].job_id = 2
    /\ bt_results[3].job_id = 3

\* Files whose _process_single_file call is inside the semaphore.
InFlight ==
    {i \in 1..Len(bt_task) : bt_task[i] \in {"inside", "extracting", "prompted"}}

\* C16: at every moment of a parallel batch the number of files inside the
\* semaphore is at most max_concurrent.
C16_InFlightBoundedByMaxConcurrent ==
    bt_parallel => Cardinality(InFlight) <= bt_max_concurrent

\* C16 witness: three files with max_concurrent = 2; two extractions are in
\* flight and the third file waits outside the semaphore.
C16_Witness ==
    /\ bt_pc = "running"
    /\ bt_parallel
    /\ bt_max_concurrent = 2
    /\ bt_task = <<"extracting", "extracting", "new">>
    /\ bt_permits = 0

\* C17: (as stated) a batch of N files that returned has broadcast exactly N
\* progress messages, the last of them with current = N.
C17_ProgressEventForEveryFile ==
    bt_pc = "done" =>
        /\ Len(bt_events) = Len(bt_files)
        /\ Len(bt_files) > 0 => bt_events[Len(bt_events)].current = Len(bt_files)

-----------------------------------------------------------------------------
(* Claims about the missing credential                                       *)

\* C18: (as stated) when create_llm raises the configuration error for a
\* missing API key in spread_pdf, no page conversion has been performed.
C18_MissingCredentialFailsBeforeConversion ==
    [][(sp_pc = "create_llm" /\ ~sp_credential /\ sp_pc' = "raised") => ~sp_converted]_vars

-----------------------------------------------------------------------------
(* Claims about fiscal period detection                                      *)

\* C19: (as stated) when _detect_fiscal_period returns after a first pass
\* of confidence below 0.70 and without accepting a second pass, the
\* period it returns is the requested sentinel.
C19_LowConfidenceReturnsSentinel ==
    (/\ dt_pc = "done"
     /\ dt_first # None
     /\ Val(dt_first).confidence < ConfidenceThreshold
     /\ Val(dt_returned).source # "second")
        => Val(dt_returned).period = dt_requested

-----------------------------------------------------------------------------
(* Claims about period labels                                                *)

\* C21: (as stated) a period label that _classify_columns has standardized
\* is left unchanged by a second standardize_period_label, the one that
\* spread_pdf_multi_period applies to the labels of the extracted periods.
C21_StandardizedLabelIsFixedPoint ==
    mp_classification # NoClassification =>
        \A i \in 1..Len(mp_classification.period_columns) :
            StandardLabelOf[mp_classification.period_columns[i]]
                = mp_classification.period_columns[i]

\* The classifier model reads "Jan 2025" and "Jan-Dec 2024" as periods and
\* "Total" as a rollup.
TwoPeriodsPlusTotalReported ==
    mp_reported = [period_columns |-> <<"Jan 2025", "Jan-Dec 2024">>,
                   rollup_columns |-> <<"Total">>]

-----------------------------------------------------------------------------
(* Claims about the order of reconciliation and validation                   *)

\* C23: (as stated) in spread_pdf, once validate_spread has completed on the
\* result and the loop is left, no step changes a LineItem of the result.
C23_NoLineItemChangeAfterValidation ==
    [][(sp_pc = "post" /\ sp_result # None /\ sp_result' # None) =>
          \A f \in LineItemFields(Val(sp_result)) :
              Val(sp_result')[f] = Val(sp_result)[f]]_vars

-----------------------------------------------------------------------------
(* Claims about the event loop                                               *)

\* C24: (as stated) every model-calling step of spread_pdf_combined, the
\* detection and each extraction, runs on a worker thread and none on the
\* event-loop thread.
C24_ModelCallsOnWorkerThreads ==
    \A i \in 1..Len(cb_threads) : cb_threads[i].thread = "worker"

-----------------------------------------------------------------------------
(* Claims about the fallback-prompt flag                                     *)

-----------------------------------------------------------------------------
(* Claims about the parallel computed-totals pass                           *)

ParallelPassReturned ==
    pt_pc = "returned" /\ Len(pt_input) >= ParallelThreshold

\* C26: when the computed-totals pass runs in parallel over 3 or more
\* periods, in every interleaving of the pool tasks each task reads and
\* writes only the data of its own period (the calling thread stores a
\* period's data only once that period's task has finished), and the pass
\* returns with the same periods, in the same order, holding the values
\* apply_computed_totals gives for each period on its own.
C26_ParallelTotalsEqualSequential ==
    /\ \A a \in pt_access :
          /\ a.thread = "worker" => a.period = a.task
          /\ (a.thread = "main" /\ pt_pc # "returned") =>
                pt_worker[a.period] = "collected"
    /\ ParallelPassReturned =>
          /\ Len(pt_periods) = Len(pt_input)
          /\ \A i \in 1..Len(pt_input) :
                /\ pt_periods[i].period_label = pt_input[i].period_label
                /\ pt_periods[i].data =
                      apply_computed_totals(pt_input[i].data, pt_tol).data

\* A parallel pass has returned after filling totals in some period and
\* leaving another period as it was.
C26_Witness ==
    /\ ParallelPassReturned
    /\ \E i, j \in 1..Len(pt_input) :
          /\ pt_periods[i].data # pt_input[i].data
          /\ pt_periods[j].data = pt_input[j].data
          /\ pt_input[i].data # pt_input[j].data

-----------------------------------------------------------------------------
(* Claims about the periods a multi-period result carries                   *)

ReturnedLabels == [i \in 1..Len(Val(mp_returned)) |-> Val(mp_returned)[i].period_label]

\* C27: in every multi-period result, whatever the extraction model returned,
\* the labels of the returned periods are exactly the frozen period_columns,
\* one returned period per frozen period column, and no returned period
\* carries a label that is one of the frozen rollup_columns.
C27_ReturnedLabelsAreFrozenPeriodColumns ==
    mp_returned # None =>
        /\ ReturnedLabels = mp_frozen.period_columns
        /\ \A i \in 1..Len(ReturnedLabels) :
              \A j \in 1..Len(mp_frozen.rollup_columns) :
                  ReturnedLabels[i] # mp_frozen.rollup_columns[j]

\* C29: label standardization in the column classifier never merges columns:
\* when the classifier model reports k pairwise-distinct period columns, the
\* frozen period_columns holds k pairwise-distinct labels in the same order.
C29_StandardizationKeepsColumnsDistinct ==
    LET reported == mp_reported.period_columns
        frozen == mp_frozen.period_columns
    IN  (/\ mp_frozen # NoClassification
         /\ \A i, j \in 1..Len(reported) : i # j => reported[i] # reported[j])
        => /\ Len(frozen) = Len(reported)
           /\ \A i, j \in 1..Len(frozen) : i # j => frozen[i] # frozen[j]
           /\ \A i \in 1..Len(frozen) : frozen[i] = StandardLabelOf[reported[i]]

-----------------------------------------------------------------------------
(* Claims about the concurrency gate of the batch endpoint                  *)

\* C28: for every max_concurrent the batch endpoint accepts and every batch
\* of N files, provided each model call eventually returns or fails, every
\* per-file task eventually gets through the concurrency gate and the batch
\* call eventually returns its N results; no task waits on the gate forever.
C28_EveryTaskPassesTheGateAndBatchReturns ==
    (bt_pc = "running") ~>
        (/\ bt_pc = "done"
         /\ Len(bt_results) = Len(bt_files)
         /\ \A i \in 1..Len(bt_task) : bt_task[i] # "new")

-----------------------------------------------------------------------------
(* Claims about the stored record of a test run                             *)

\* C30: once run_test has saved a RUNNING record for a test id, every way
\* run_test can end (a normal return, or an exception raised after that
\* save) leaves the stored record for that id with status COMPLETE or ERROR,
\* never RUNNING.
C30_EndedRunNeverLeftRunning ==
    (rt_running_saved /\ rt_end # "none") =>
        rt_db \in {Some("COMPLETE"), Some("ERROR")}

====
